---- MODULE Spec2Model ----
(***************************************************************************)
(* Transcription pipeline of the video-transcription-analysis backend:     *)
(* the job queue and worker loop of services/transcription_service.py, the *)
(* startup recovery scan of main.py and the request handlers (upload,      *)
(* retry, delete) that feed them.  The database is the persisted state; a  *)
(* crash loses everything else.  Two further specifications look at parts  *)
(* of the backend on their own: the key rotation and retry loop of         *)
(* services/gemini_service.py (DispatchSpec), and the registry and the     *)
(* model loader of transcription_service.py statement by statement, with   *)
(* _lock explicit (ObserveSpec).                                           *)
(***************************************************************************)
EXTENDS Integers, Sequences, FiniteSets, TLC

\* ------------------------------------------------------------- bounds
NumVideos == 2      \* rows the videos table may ever hold (ids 1..NumVideos)
NumThreads == 2     \* request threads: the event loop and the pool threads
MaxRetries == 1     \* retry requests accepted per process lifetime
MaxRepeats == 2     \* retry requests per lifetime when one video is retried repeatedly
MaxCrashes == 1     \* process crashes followed by a restart
NumDispatchers == 2 \* request threads that call the Gemini dispatcher
MaxKeys == 3        \* API keys the settings store may hold
MaxCalls == 2       \* dispatch calls started
MaxJobs == 2        \* jobs enqueued while the registry is observed
MaxReads == 1       \* get_queue_status calls while the registry is observed
NumModels == 2      \* model identifiers the settings store may hold
MaxLen == 6         \* characters of a response text handed to _parse_response
RecursionLimit == 2 \* nested arrays json.loads decodes before it raises RecursionError

\* ---------------------------------------------------------- constants
ErrLimit == 500     \* _mark_error keeps at most this many characters
DefaultModel == 1   \* "gemini-2.5-flash", returned when no model is stored

Videos == 1..NumVideos
Main == 0                       \* the lifespan (startup) thread
Threads == 1..NumThreads        \* request threads
EventLoop == 1                  \* runs the coroutine handlers (upload_videos)
PoolThreads == Threads \ {EventLoop}    \* run the plain handlers (retry, delete)
Callers == 0..NumThreads        \* every thread that may call enqueue_transcription
Workers == Callers              \* a worker thread is named after the caller that started it
JobIds == 1..(NumVideos + MaxRetries)
NoJob == [seq |-> 0, vid |-> 0]
NoVideo == [status |-> "none", error_message |-> -1, transcription |-> FALSE]
NewVideo == [status |-> "uploaded", error_message |-> -1, transcription |-> FALSE]
Terminal == {"transcribed", "error"}
Incomplete == {"uploaded", "transcribing"}
\* lengths of the exception texts str(e) handed to _mark_error (a long one)
ErrLens == {ErrLimit + 1}
Loaders == {"preload", "worker"}    \* threads that call get_model: lifespan's _preload
                                    \* thread and the worker thread
NoSnapshot == [model_loaded |-> FALSE, model_loading |-> FALSE, queue_size |-> 0,
               queue_video_ids |-> << >>, current_video_id |-> 0, current_step |-> "",
               current_elapsed_seconds |-> FALSE]
\* the entries of the dict of get_queue_status, in the order they are evaluated
Fields == << "model_loaded", "model_loading", "queue_size", "queue_video_ids",
             "current_video_id", "current_step", "current_elapsed_seconds" >>
Dispatchers == 1..NumDispatchers    \* threads running analyze_* calls
Outcomes == {"ok", "rate", "other"} \* an attempt returns, or raises an error whose text
                                    \* has / has not a rate-limit signature
ModelIds == 1..NumModels            \* model identifiers, DefaultModel among them
\* A response text is a sequence of characters of seven kinds: "F" is a fence
\* (three backticks), "N" a newline, "S" a blank, "1" a digit, "x" a letter,
\* "[" and "]" the brackets of an array.
Alphabet == {"F", "N", "S", "1", "x", "[", "]"}
Texts == UNION {[1..n -> Alphabet] : n \in 0..MaxLen}

VARIABLES
    videos,             \* videos table (with its transcription): id -> row, NoVideo when absent
    nextId,             \* next autoincrement id of the videos table
    phase,              \* "startup" while lifespan runs the recovery scan, then "serving"
    model,              \* _model is not None
    model_loading,      \* _model_loading
    task_queue,         \* _task_queue: FIFO of (video_id, filepath) jobs
    worker_thread,      \* _worker_thread: the worker last assigned, -1 for None
    current_video_id,   \* _current_video_id, 0 for None
    current_step,       \* _current_step
    current_start_time, \* _current_start_time is not None
    queue_video_ids,    \* _queue_video_ids
    wpc,                \* worker -> position in _worker ("none": never started)
    wjob,               \* worker -> the job it dequeued
    wres,               \* worker -> how far its job got: "", "done", "skipped", "raised", "marked", "unmarked"
    wstaged,            \* worker -> its job raised after db.add had staged the transcription
    cpc,                \* caller -> position in its handler
    carg,               \* caller -> the video its handler works on
    cld,                \* caller -> the row its session loaded (NoVideo once expired)
    cop,                \* caller -> the handler it is running: "", "scan", "retry", "upload"
    stuck,              \* rows the recovery scan still has to visit
    retries,            \* retry requests accepted in this lifetime
    crashes,            \* crashes so far
    \* history variables (never read by the program's steps)
    nextSeq,            \* jobs put so far in this lifetime, plus one
    takes,              \* jobs dequeued so far in this lifetime
    lastTaken,          \* number of the job dequeued last
    finished,           \* jobs whose processing ended (the finally clause ran)
    statusAtStart,      \* video -> its status when this lifetime started
    scanRes,            \* video -> what the recovery scan did with it: "none", "found",
                        \*   "reset", "failed", or "unqueried" when the query itself failed
    scanEnq,            \* video -> times the recovery scan put a job for it
    orphaned,           \* numbers of the jobs whose video was deleted while they were queued
    lost                \* videos whose status write (scan reset, _mark_error) or whose
                        \*   refresh in upload_videos failed

\* state of the other components; the pipeline's steps leave it alone
VARIABLES
    key_index,          \* gemini_service._key_index
    key_lock,           \* gemini_service._key_lock: 0 when free, else the caller holding it
    pool,               \* number of API keys in the settings store (key i is credential i)
    calls,              \* dispatch calls started so far
    dpc,                \* dispatcher -> position in analyze_* / _next_key
    dn,                 \* dispatcher -> len(keys), the pool it loaded when its call started
    dattempt,           \* dispatcher -> loop variable `attempt` (iterations started)
    didx,               \* dispatcher -> idx, the position _next_key selected
    dtmp,               \* dispatcher -> value of _key_index loaded by `_key_index += 1`
    dmade,              \* dispatcher -> network attempts made in its call
    dres,               \* dispatcher -> how its call ended: "", "ok", "config_error",
                        \*   "other_error", "exhausted"
    dkey,               \* dispatcher -> credential of the result returned / of last_error
    \* history variables of the dispatcher
    dobs,               \* dispatcher -> cursor value its last selection observed
    dstart,             \* dispatcher -> cursor value its first selection observed (-1: none)
    dsolo,              \* dispatcher -> no other caller selected a key during its call
    dscen,              \* dispatcher -> credentials 1 and 2 answered rate-limit, 3 answered
    dstop,              \* dispatcher -> attempts made when an attempt first ended the call
    selections,         \* selections completed by _next_key
    observed,           \* cursor values observed by selections
    repeated,           \* some selection observed a value already observed
    gemini_model,       \* the model identifier in the settings store, 0 for none
    dmodel              \* dispatcher -> the model identifier its call loaded

dispatchVars == << key_index, key_lock, pool, calls, dpc, dn, dattempt, didx, dtmp, dmade,
                   dres, dkey, dobs, dstart, dsolo, dscen, dstop, selections, observed,
                   repeated, gemini_model, dmodel >>

\* _parse_response applied to one response text
VARIABLES
    ptext,              \* the argument `text`
    ppc,                \* position in _parse_response
    pcleaned,           \* the local `cleaned`
    presult             \* what the call returned

parseVars == << ptext, ppc, pcleaned, presult >>

\* the registry under its lock, statement by statement, and the loading of the model
VARIABLES
    lock,               \* transcription_service._lock: "" when free, else the thread holding it
    rpc,                \* the worker thread's position in _worker, statement by statement
    rjob,               \* video_id of the job that worker dequeued, 0 for none
    jobs,               \* jobs enqueued so far
    gpc,                \* loader -> position in get_model ("out": not in it)
    ginst,              \* loader -> the instance whisper.load_model returned to it
    model_id,           \* the instance _model refers to, 0 for None
    gret,               \* loader -> the instance get_model returned to it last, 0 for none
    built,              \* instances whisper.load_model has constructed
    spc,                \* the observer's position in get_queue_status
    sfield,             \* the entry of the dict the observer evaluates next
    snap,               \* the dict get_queue_status is building / has returned
    reads,              \* get_queue_status calls started
    during              \* registry contents that existed during the running call

observeVars == << lock, rpc, rjob, jobs, gpc, ginst, model_id, gret, built, spc, sfield,
                  snap, reads, during >>

auxVars == << dispatchVars, observeVars, parseVars >>

pipeVars == << videos, nextId, phase, model, model_loading, task_queue, worker_thread,
               current_video_id, current_step, current_start_time, queue_video_ids,
               wpc, wjob, wres, wstaged, cpc, carg, cld, cop, stuck, retries, crashes,
               nextSeq, takes, lastTaken, finished, statusAtStart, scanRes, scanEnq, orphaned, lost >>

vars == << pipeVars, auxVars >>

dbVars == << videos, nextId >>
modelVars == << model, model_loading >>
registryVars == << current_video_id, current_step, current_start_time, queue_video_ids >>
workerVars == << wpc, wjob, wres, wstaged >>
callerVars == << cpc, carg, cld, cop >>
histVars == << nextSeq, takes, lastTaken, finished, statusAtStart, scanRes, scanEnq, orphaned, lost >>

\* ------------------------------------------------------------ helpers
RECURSIVE RemoveFirst(_, _)
\* list.remove(x): drops the first occurrence of x
RemoveFirst(s, x) ==
    IF s = << >> THEN << >>
    ELSE IF Head(s) = x THEN Tail(s)
    ELSE << Head(s) >> \o RemoveFirst(Tail(s), x)

\* error_msg[:500] if len(error_msg) > 500 else error_msg, on the text's length
Truncate(n) == IF n > ErrLimit THEN ErrLimit ELSE n

\* list.index(x): 0-based position of the first occurrence, -1 for ValueError
Index(s, x) ==
    IF \E i \in 1..Len(s) : s[i] = x
    THEN (CHOOSE i \in 1..Len(s) : s[i] = x /\ \A j \in 1..(i - 1) : s[j] # x) - 1
    ELSE -1

\* get_video_queue_position(video_id), -1 for None
get_video_queue_position(v) ==
    IF current_video_id = v THEN 0
    ELSE IF Index(queue_video_ids, v) # -1 THEN Index(queue_video_ids, v) + 1
    ELSE -1

\* _worker_thread.is_alive()
IsAlive(w) == wpc[w] \notin {"none", "dead"}

\* the state of a process that has just started: module globals of
\* transcription_service.py at import, lifespan about to run the scan
FreshProcess ==
    /\ phase = "startup"
    /\ model = FALSE
    /\ model_loading = FALSE
    /\ task_queue = << >>
    /\ worker_thread = -1
    /\ current_video_id = 0
    /\ current_step = ""
    /\ current_start_time = FALSE
    /\ queue_video_ids = << >>
    /\ wpc = [w \in Workers |-> "none"]
    /\ wjob = [w \in Workers |-> NoJob]
    /\ wres = [w \in Workers |-> ""]
    /\ wstaged = [w \in Workers |-> FALSE]
    /\ cpc = [c \in Callers |-> IF c = Main THEN "scan_query" ELSE "idle"]
    /\ carg = [c \in Callers |-> 0]
    /\ cld = [c \in Callers |-> NoVideo]
    /\ cop = [c \in Callers |-> IF c = Main THEN "scan" ELSE ""]
    /\ stuck = {}
    /\ retries = 0
    /\ nextSeq = 1
    /\ takes = 0
    /\ lastTaken = 0
    /\ finished = 0
    /\ scanRes = [v \in Videos |-> "none"]
    /\ scanEnq = [v \in Videos |-> 0]
    /\ lost = {}
    /\ orphaned = {}

\* gemini_service at import (_key_index = 0), no API key stored, no call running
DispatchStart ==
    /\ key_index = 0
    /\ key_lock = 0
    /\ pool = 0
    /\ calls = 0
    /\ dpc = [d \in Dispatchers |-> "idle"]
    /\ dn = [d \in Dispatchers |-> 0]
    /\ dattempt = [d \in Dispatchers |-> 0]
    /\ didx = [d \in Dispatchers |-> 0]
    /\ dtmp = [d \in Dispatchers |-> 0]
    /\ dmade = [d \in Dispatchers |-> 0]
    /\ dres = [d \in Dispatchers |-> ""]
    /\ dkey = [d \in Dispatchers |-> 0]
    /\ dobs = [d \in Dispatchers |-> -1]
    /\ dstart = [d \in Dispatchers |-> -1]
    /\ dsolo = [d \in Dispatchers |-> TRUE]
    /\ dscen = [d \in Dispatchers |-> TRUE]
    /\ dstop = [d \in Dispatchers |-> 0]
    /\ selections = 0
    /\ observed = {}
    /\ repeated = FALSE
    /\ gemini_model = 0
    /\ dmodel = [d \in Dispatchers |-> 0]

\* transcription_service at import, seen statement by statement: the lock is
\* free, no thread is inside get_model, nobody reads the registry
ObserveStart ==
    /\ lock = ""
    /\ rpc = "get"
    /\ rjob = 0
    /\ jobs = 0
    /\ gpc = [l \in Loaders |-> IF l = "preload" THEN "idle" ELSE "out"]
    /\ ginst = [l \in Loaders |-> 0]
    /\ model_id = 0
    /\ gret = [l \in Loaders |-> 0]
    /\ built = 0
    /\ spc = "idle"
    /\ sfield = 1
    /\ snap = NoSnapshot
    /\ reads = 0
    /\ during = {}

\* no response text is being parsed
NoResult == [tag |-> "none"]
ParseStart ==
    /\ ptext = << >>
    /\ ppc = "done"
    /\ pcleaned = << >>
    /\ presult = NoResult

AuxStart == DispatchStart /\ ObserveStart /\ ParseStart

Init ==
    /\ videos = [v \in Videos |-> NoVideo]
    /\ nextId = 1
    /\ crashes = 0
    /\ statusAtStart = [v \in Videos |-> "none"]
    /\ FreshProcess
    /\ AuxStart

\* ------------------------------------------- enqueue_transcription
\* with _lock: _queue_video_ids.append(video_id)
EnqAppend(c) ==
    /\ cpc[c] = "append"
    /\ queue_video_ids' = Append(queue_video_ids, carg[c])
    /\ cpc' = [cpc EXCEPT ![c] = "check"]
    /\ UNCHANGED << dbVars, phase, modelVars, task_queue, worker_thread, current_video_id,
                    current_step, current_start_time, workerVars, carg, cld, cop, stuck,
                    retries, crashes, histVars >>
    /\ UNCHANGED auxVars

\* if _worker_thread is None or not _worker_thread.is_alive():
NeedsWorker == worker_thread = -1 \/ ~IsAlive(worker_thread)

EnqCheck(c) ==
    /\ cpc[c] = "check"
    /\ cpc' = [cpc EXCEPT ![c] = IF NeedsWorker THEN "start" ELSE "put"]
    /\ UNCHANGED << dbVars, phase, modelVars, task_queue, worker_thread, registryVars,
                    workerVars, carg, cld, cop, stuck, retries, crashes, histVars >>
    /\ UNCHANGED auxVars

\* _worker_thread = threading.Thread(target=_worker, daemon=True); _worker_thread.start()
EnqStart(c) ==
    /\ cpc[c] = "start"
    /\ worker_thread' = c
    /\ wpc' = [wpc EXCEPT ![c] = "get"]
    /\ wjob' = [wjob EXCEPT ![c] = NoJob]
    /\ wres' = [wres EXCEPT ![c] = ""]
    /\ wstaged' = [wstaged EXCEPT ![c] = FALSE]
    /\ cpc' = [cpc EXCEPT ![c] = "put"]
    /\ UNCHANGED << dbVars, phase, modelVars, task_queue, registryVars, carg, cld, cop,
                    stuck, retries, crashes, histVars >>
    /\ UNCHANGED auxVars

\* _task_queue.put((video_id, filepath)); the call returns to its handler
EnqPut(c) ==
    /\ cpc[c] = "put"
    /\ task_queue' = Append(task_queue, [seq |-> nextSeq, vid |-> carg[c]])
    /\ nextSeq' = nextSeq + 1
    /\ scanEnq' = IF c = Main THEN [scanEnq EXCEPT ![carg[c]] = @ + 1] ELSE scanEnq
    /\ cpc' = [cpc EXCEPT ![c] = IF c = Main THEN "scan_next" ELSE "idle"]
    /\ carg' = [carg EXCEPT ![c] = 0]
    /\ cld' = [cld EXCEPT ![c] = NoVideo]
    /\ cop' = [cop EXCEPT ![c] = IF c = Main THEN "scan" ELSE ""]
    /\ UNCHANGED << dbVars, phase, modelVars, worker_thread, registryVars, workerVars,
                    stuck, retries, crashes, takes, lastTaken, finished, statusAtStart,
                    scanRes, orphaned, lost >>
    /\ UNCHANGED auxVars

\* ------------------------------------------------------- _worker
\* (mutant) get() hands out the head of the queue without removing it
QueueGetKeepsHead(w) ==
    /\ task_queue # << >>
    /\ wjob' = [wjob EXCEPT ![w] = Head(task_queue)]
    /\ task_queue' = task_queue
    /\ takes' = takes + 1
    /\ lastTaken' = Head(task_queue).seq

\* video_id, filepath = _task_queue.get()
QueueGet(w) ==
    /\ task_queue # << >>
    /\ wjob' = [wjob EXCEPT ![w] = Head(task_queue)]
    /\ task_queue' = Tail(task_queue)
    /\ takes' = takes + 1
    /\ lastTaken' = Head(task_queue).seq

WGet(w) ==
    /\ wpc[w] = "get"
    /\ QueueGet(w)
    /\ wres' = [wres EXCEPT ![w] = ""]
    /\ wpc' = [wpc EXCEPT ![w] = "lock"]
    /\ UNCHANGED << dbVars, phase, modelVars, worker_thread, registryVars, callerVars,
                    stuck, retries, crashes, nextSeq, finished, statusAtStart, scanRes,
                    scanEnq, orphaned, lost >>
    /\ UNCHANGED wstaged
    /\ UNCHANGED auxVars

\* (mutant) the dequeued id is left in the pending list
WLockKeepsPending(w) ==
    /\ wpc[w] = "lock"
    /\ current_video_id' = wjob[w].vid
    /\ current_start_time' = TRUE
    /\ queue_video_ids' = queue_video_ids
    /\ wpc' = [wpc EXCEPT ![w] = "begin"]
    /\ UNCHANGED << dbVars, phase, modelVars, task_queue, worker_thread, current_step,
                    wjob, wres, wstaged, callerVars, stuck, retries, crashes, histVars >>
    /\ UNCHANGED auxVars

\* with _lock: _current_video_id = video_id; _current_start_time = time.time();
\*             if video_id in _queue_video_ids: _queue_video_ids.remove(video_id)
WLock(w) ==
    /\ wpc[w] = "lock"
    /\ current_video_id' = wjob[w].vid
    /\ current_start_time' = TRUE
    /\ queue_video_ids' = RemoveFirst(queue_video_ids, wjob[w].vid)
    /\ wpc' = [wpc EXCEPT ![w] = "begin"]
    /\ UNCHANGED << dbVars, phase, modelVars, task_queue, worker_thread, current_step,
                    wjob, wres, wstaged, callerVars, stuck, retries, crashes, histVars >>
    /\ UNCHANGED auxVars

\* (mutant) the except clause does not call _mark_error
OnExceptionSkipsMark(w) ==
    /\ wres' = [wres EXCEPT ![w] = "raised"]
    /\ wpc' = [wpc EXCEPT ![w] = "finally"]

\* where control goes when _transcribe_video raises: the except clause of
\* _worker, which calls _mark_error
OnException(w) ==
    /\ wres' = [wres EXCEPT ![w] = "raised"]
    /\ wpc' = [wpc EXCEPT ![w] = "mark"]

\* _transcribe_video: the query, "if not video: return", status = "transcribing", commit
WBegin(w) ==
    /\ wpc[w] = "begin"
    /\ \/ /\ videos[wjob[w].vid].status = "none"
          /\ wres' = [wres EXCEPT ![w] = "skipped"]
          /\ wpc' = [wpc EXCEPT ![w] = "finally"]
          /\ UNCHANGED videos
       \/ /\ videos[wjob[w].vid].status # "none"
          /\ videos' = [videos EXCEPT ![wjob[w].vid].status = "transcribing"]
          /\ wpc' = [wpc EXCEPT ![w] = "step_loading"]
          /\ UNCHANGED wres
       \/ /\ OnException(w)            \* the query or the commit raises; rollback
          /\ UNCHANGED videos
    /\ UNCHANGED << nextId, phase, modelVars, task_queue, worker_thread, registryVars,
                    wjob, callerVars, stuck, retries, crashes, histVars >>
    /\ UNCHANGED wstaged
    /\ UNCHANGED auxVars

\* with _lock: _current_step = "model_loading"
WStepLoading(w) ==
    /\ wpc[w] = "step_loading"
    /\ current_step' = "model_loading"
    /\ wpc' = [wpc EXCEPT ![w] = "get_model"]
    /\ UNCHANGED << dbVars, phase, modelVars, task_queue, worker_thread, current_video_id,
                    current_start_time, queue_video_ids, wjob, wres, wstaged, callerVars, stuck,
                    retries, crashes, histVars >>
    /\ UNCHANGED auxVars

\* model = get_model(): loads the model when _model is None; whisper.load_model may raise
WGetModel(w) ==
    /\ wpc[w] = "get_model"
    /\ \/ /\ model
          /\ wpc' = [wpc EXCEPT ![w] = "step_transcribing"]
          /\ UNCHANGED << modelVars, wres >>
       \/ /\ ~model
          /\ model' = TRUE
          /\ model_loading' = FALSE
          /\ wpc' = [wpc EXCEPT ![w] = "step_transcribing"]
          /\ UNCHANGED wres
       \/ /\ ~model
          /\ model_loading' = TRUE
          /\ UNCHANGED model
          /\ OnException(w)
    /\ UNCHANGED << dbVars, phase, task_queue, worker_thread, registryVars, wjob,
                    callerVars, stuck, retries, crashes, histVars >>
    /\ UNCHANGED wstaged
    /\ UNCHANGED auxVars

\* with _lock: _current_step = "transcribing"; then model.transcribe(...) is entered
WStepTranscribing(w) ==
    /\ wpc[w] = "step_transcribing"
    /\ current_step' = "transcribing"
    /\ wpc' = [wpc EXCEPT ![w] = "engine"]
    /\ UNCHANGED << dbVars, phase, modelVars, task_queue, worker_thread, current_video_id,
                    current_start_time, queue_video_ids, wjob, wres, wstaged, callerVars, stuck,
                    retries, crashes, histVars >>
    /\ UNCHANGED auxVars

\* model.transcribe(filepath, ...) returns a result or raises
WEngine(w) ==
    /\ wpc[w] = "engine"
    /\ \/ /\ wpc' = [wpc EXCEPT ![w] = "save"]
          /\ UNCHANGED wres
       \/ OnException(w)
    /\ UNCHANGED << dbVars, phase, modelVars, task_queue, worker_thread, registryVars,
                    wjob, callerVars, stuck, retries, crashes, histVars >>
    /\ UNCHANGED wstaged
    /\ UNCHANGED auxVars

\* (mutant) the except clause of _transcribe_video does not roll back: the staged
\* transcription stays in the database
WSaveNoRollback(w) ==
    /\ wpc[w] = "save"
    /\ LET v == wjob[w].vid IN
       \/ /\ videos[v].status # "none"
          /\ ~videos[v].transcription
          /\ videos' = [videos EXCEPT ![v].status = "transcribed",
                                      ![v].transcription = TRUE]
          /\ wres' = [wres EXCEPT ![w] = "done"]
          /\ UNCHANGED wstaged
          /\ wpc' = [wpc EXCEPT ![w] = "finally"]
       \/ /\ OnException(w)
          /\ wstaged' = [wstaged EXCEPT ![w] = TRUE]
          /\ videos' = [videos EXCEPT ![v].transcription = (videos[v].status # "none")]
    /\ UNCHANGED << nextId, phase, modelVars, task_queue, worker_thread, registryVars,
                    wjob, callerVars, stuck, retries, crashes, histVars >>
    /\ UNCHANGED auxVars

\* db.add(transcription); db.flush(); segments; video.status = "transcribed"; db.commit()
\* The INSERT violates the unique video_id when the video already has a transcription,
\* the UPDATE finds no row when the video was deleted: both raise and roll back.
WSave(w) ==
    /\ wpc[w] = "save"
    /\ LET v == wjob[w].vid IN
       \/ /\ videos[v].status # "none"
          /\ ~videos[v].transcription
          /\ videos' = [videos EXCEPT ![v].status = "transcribed",
                                      ![v].transcription = TRUE]
          /\ wres' = [wres EXCEPT ![w] = "done"]
          /\ UNCHANGED wstaged
          /\ wpc' = [wpc EXCEPT ![w] = "finally"]
       \/ /\ OnException(w)            \* also whenever the database fails
          /\ wstaged' = [wstaged EXCEPT ![w] = TRUE]
          /\ UNCHANGED videos
    /\ UNCHANGED << nextId, phase, modelVars, task_queue, worker_thread, registryVars,
                    wjob, callerVars, stuck, retries, crashes, histVars >>
    /\ UNCHANGED auxVars

\* (mutant) _mark_error does not catch the exception of its own commit: it
\* leaves _worker through the except clause and ends the thread
WMarkErrorEscapes(w) ==
    /\ wpc[w] = "mark"
    /\ LET v == wjob[w].vid IN
       \/ /\ videos[v].status # "none"
          /\ \E n \in ErrLens :
                videos' = [videos EXCEPT ![v].status = "error",
                                         ![v].error_message = Truncate(n)]
          /\ wres' = [wres EXCEPT ![w] = "marked"]
          /\ wpc' = [wpc EXCEPT ![w] = "finally"]
          /\ UNCHANGED lost
       \/ /\ videos[v].status = "none"
          /\ wres' = [wres EXCEPT ![w] = "unmarked"]
          /\ wpc' = [wpc EXCEPT ![w] = "finally"]
          /\ UNCHANGED << videos, lost >>
       \/ /\ videos[v].status # "none"
          /\ wres' = [wres EXCEPT ![w] = "unmarked"]
          /\ wpc' = [wpc EXCEPT ![w] = "dead"]
          /\ lost' = lost \cup {v}
          /\ UNCHANGED videos
    /\ UNCHANGED << nextId, phase, modelVars, task_queue, worker_thread, registryVars,
                    wjob, callerVars, stuck, retries, crashes, nextSeq, takes, lastTaken,
                    finished, statusAtStart, scanRes, scanEnq, orphaned >>
    /\ UNCHANGED wstaged
    /\ UNCHANGED auxVars

\* _mark_error(video_id, str(e)): status = "error", error_message = truncated, commit;
\* an exception of the query or the commit is caught and rolled back
WMarkError(w) ==
    /\ wpc[w] = "mark"
    /\ LET v == wjob[w].vid IN
       \/ /\ videos[v].status # "none"
          /\ \E n \in ErrLens :
                videos' = [videos EXCEPT ![v].status = "error",
                                         ![v].error_message = Truncate(n)]
          /\ wres' = [wres EXCEPT ![w] = "marked"]
          /\ UNCHANGED lost
       \/ /\ videos[v].status = "none"
          /\ wres' = [wres EXCEPT ![w] = "unmarked"]
          /\ UNCHANGED << videos, lost >>
       \/ /\ videos[v].status # "none" \* the query or the commit raises: logged, rollback
          /\ wres' = [wres EXCEPT ![w] = "unmarked"]
          /\ lost' = lost \cup {v}
          /\ UNCHANGED videos
    /\ wpc' = [wpc EXCEPT ![w] = "finally"]
    /\ UNCHANGED << nextId, phase, modelVars, task_queue, worker_thread, registryVars,
                    wjob, callerVars, stuck, retries, crashes, nextSeq, takes, lastTaken,
                    finished, statusAtStart, scanRes, scanEnq, orphaned >>
    /\ UNCHANGED wstaged
    /\ UNCHANGED auxVars

\* finally: with _lock: _current_video_id = None; _current_step = "";
\*          _current_start_time = None; then _task_queue.task_done() and loop
WFinally(w) ==
    /\ wpc[w] = "finally"
    /\ current_video_id' = 0
    /\ current_step' = ""
    /\ current_start_time' = FALSE
    /\ finished' = finished + 1
    /\ wjob' = [wjob EXCEPT ![w] = NoJob]
    /\ wres' = [wres EXCEPT ![w] = ""]
    /\ wstaged' = [wstaged EXCEPT ![w] = FALSE]
    /\ wpc' = [wpc EXCEPT ![w] = "get"]
    /\ UNCHANGED << dbVars, phase, modelVars, task_queue, worker_thread, queue_video_ids,
                    callerVars, stuck, retries, crashes, nextSeq, takes, lastTaken,
                    statusAtStart, scanRes, scanEnq, orphaned, lost >>
    /\ UNCHANGED auxVars

Worker(w) ==
    \/ WGet(w)
    \/ WLock(w)
    \/ WBegin(w)
    \/ WStepLoading(w)
    \/ WGetModel(w)
    \/ WStepTranscribing(w)
    \/ WEngine(w)
    \/ WSave(w)
    \/ WMarkError(w)
    \/ WFinally(w)

\* ---------------------------------- _requeue_incomplete_transcriptions
\* (mutant) the filter names only "transcribing"
StuckQueryOnlyTranscribing == {v \in Videos : videos[v].status = "transcribing"}

\* (mutant) the query has no filter
StuckQueryAll == {v \in Videos : videos[v].status # "none"}

\* stuck = db.query(Video).filter(Video.status.in_(["uploaded", "transcribing"])).all()
StuckQuery == {v \in Videos : videos[v].status \in Incomplete}

ScanQuery ==
    /\ phase = "startup"
    /\ cpc[Main] = "scan_query"
    /\ \/ /\ stuck' = StuckQuery
          /\ scanRes' = [v \in Videos |-> IF v \in StuckQuery THEN "found" ELSE "none"]
          /\ UNCHANGED lost
       \/ /\ stuck' = {}                \* the query raises: the outer except logs it
          /\ scanRes' = [v \in Videos |-> IF v \in StuckQuery THEN "unqueried" ELSE "none"]
          /\ lost' = lost \cup StuckQuery
    /\ cpc' = [cpc EXCEPT ![Main] = "scan_next"]
    /\ UNCHANGED << dbVars, phase, modelVars, task_queue, worker_thread, registryVars,
                    workerVars, carg, cld, cop, retries, crashes, nextSeq, takes, lastTaken,
                    finished, statusAtStart, scanEnq, orphaned >>
    /\ UNCHANGED auxVars

\* (mutant) the loop resets the status and forgets to enqueue
ScanResetNoEnqueue(v) ==
    /\ phase = "startup"
    /\ cpc[Main] = "scan_next"
    /\ v \in stuck
    /\ stuck' = stuck \ {v}
    /\ videos' = [videos EXCEPT ![v].status = "uploaded"]
    /\ scanRes' = [scanRes EXCEPT ![v] = "reset"]
    /\ UNCHANGED << nextId, phase, modelVars, task_queue, worker_thread, registryVars,
                    workerVars, callerVars, retries, crashes, nextSeq, takes, lastTaken,
                    finished, statusAtStart, scanEnq, orphaned, lost >>
    /\ UNCHANGED auxVars

\* (mutant) the try is around the loop: the first failure ends the scan
ScanResetAborts(v) ==
    /\ phase = "startup"
    /\ cpc[Main] = "scan_next"
    /\ v \in stuck
    /\ \/ /\ stuck' = stuck \ {v}
          /\ videos' = [videos EXCEPT ![v].status = "uploaded"]
          /\ scanRes' = [scanRes EXCEPT ![v] = "reset"]
          /\ carg' = [carg EXCEPT ![Main] = v]
          /\ cpc' = [cpc EXCEPT ![Main] = "append"]
          /\ UNCHANGED lost
       \/ /\ stuck' = {}
          /\ scanRes' = [scanRes EXCEPT ![v] = "failed"]
          /\ lost' = lost \cup {v}
          /\ UNCHANGED << videos, carg, cpc >>
    /\ UNCHANGED << nextId, phase, modelVars, task_queue, worker_thread, registryVars,
                    workerVars, cld, cop, retries, crashes, nextSeq, takes, lastTaken,
                    finished, statusAtStart, scanEnq, orphaned >>
    /\ UNCHANGED auxVars

\* for v in stuck: v.status = "uploaded"; db.commit(); then enqueue_transcription(v.id, ...)
\* except Exception: db.rollback(), the entity is skipped
ScanReset(v) ==
    /\ phase = "startup"
    /\ cpc[Main] = "scan_next"
    /\ v \in stuck
    /\ stuck' = stuck \ {v}
    /\ \/ /\ videos' = [videos EXCEPT ![v].status = "uploaded"]
          /\ scanRes' = [scanRes EXCEPT ![v] = "reset"]
          /\ carg' = [carg EXCEPT ![Main] = v]
          /\ cpc' = [cpc EXCEPT ![Main] = "append"]
          /\ UNCHANGED lost
       \/ /\ scanRes' = [scanRes EXCEPT ![v] = "failed"]
          /\ lost' = lost \cup {v}
          /\ UNCHANGED << videos, carg, cpc >>
    /\ UNCHANGED << nextId, phase, modelVars, task_queue, worker_thread, registryVars,
                    workerVars, cld, cop, retries, crashes, nextSeq, takes, lastTaken,
                    finished, statusAtStart, scanEnq, orphaned >>
    /\ UNCHANGED auxVars

\* the loop is over: lifespan yields and the process serves requests
ScanDone ==
    /\ phase = "startup"
    /\ cpc[Main] = "scan_next"
    /\ stuck = {}
    /\ phase' = "serving"
    /\ cpc' = [cpc EXCEPT ![Main] = "idle"]
    /\ cop' = [cop EXCEPT ![Main] = ""]
    /\ UNCHANGED << dbVars, modelVars, task_queue, worker_thread, registryVars, workerVars,
                    carg, cld, stuck, retries, crashes, histVars >>
    /\ UNCHANGED auxVars

\* ------------------------------------------------- request handlers
\* retry_transcription: the query, the 404 and 400 checks, and the load of
\* video.transcription; a rejected request changes nothing
RetryAccepts(v) == videos[v].status \in {"error", "uploaded"}

RetryBegin(t, v) ==
    /\ phase = "serving"
    /\ t \in PoolThreads
    /\ cpc[t] = "idle"
    /\ retries < MaxRetries
    /\ RetryAccepts(v)
    /\ retries' = retries + 1
    /\ cop' = [cop EXCEPT ![t] = "retry"]
    /\ carg' = [carg EXCEPT ![t] = v]
    /\ cld' = [cld EXCEPT ![t] = videos[v]]
    /\ cpc' = [cpc EXCEPT ![t] = IF videos[v].transcription THEN "retry_delete"
                                 ELSE "retry_write"]
    /\ UNCHANGED << dbVars, phase, modelVars, task_queue, worker_thread, registryVars,
                    workerVars, stuck, crashes, histVars >>
    /\ UNCHANGED auxVars

\* the handler ends with an error response (an exception leaves the handler)
HandlerAborts(t) ==
    /\ cpc' = [cpc EXCEPT ![t] = "idle"]
    /\ carg' = [carg EXCEPT ![t] = 0]
    /\ cld' = [cld EXCEPT ![t] = NoVideo]
    /\ cop' = [cop EXCEPT ![t] = ""]

\* db.delete(video.transcription); db.commit(): the commit expires the loaded row
RetryDelete(t) ==
    /\ cpc[t] = "retry_delete"
    /\ LET v == carg[t] IN
       \/ /\ videos[v].transcription
          /\ videos' = [videos EXCEPT ![v].transcription = FALSE]
          /\ cld' = [cld EXCEPT ![t] = NoVideo]
          /\ cpc' = [cpc EXCEPT ![t] = "retry_write"]
          /\ UNCHANGED << carg, cop >>
       \/ /\ HandlerAborts(t)          \* the row is gone, or the database fails
          /\ UNCHANGED videos
    /\ UNCHANGED << nextId, phase, modelVars, task_queue, worker_thread, registryVars,
                    workerVars, stuck, retries, crashes, histVars >>
    /\ UNCHANGED auxVars

\* video.status = "uploaded"; video.error_message = None; db.commit()
\* The unit of work writes a column only when its value differs from the loaded
\* one, and writes it blindly when the row was expired by an earlier commit.
RetryWritesStatus(t) == cld[t] = NoVideo \/ cld[t].status # "uploaded"
RetryWritesMessage(t) == cld[t] = NoVideo \/ cld[t].error_message # -1

RetryWrite(t) ==
    /\ cpc[t] = "retry_write"
    /\ LET v == carg[t] IN
       \/ /\ videos[v].status # "none"
          /\ videos' = [videos EXCEPT
                ![v].status = IF RetryWritesStatus(t) THEN "uploaded" ELSE @,
                ![v].error_message = IF RetryWritesMessage(t) THEN -1 ELSE @]
          /\ cpc' = [cpc EXCEPT ![t] = "append"]
          /\ UNCHANGED << carg, cld, cop >>
       \/ /\ HandlerAborts(t)          \* the row is gone, or the database fails
          /\ UNCHANGED videos
    /\ UNCHANGED << nextId, phase, modelVars, task_queue, worker_thread, registryVars,
                    workerVars, stuck, retries, crashes, histVars >>
    /\ UNCHANGED auxVars

\* upload_videos, for one file: db.add(video); db.commit(); db.refresh(video); then
\* enqueue_transcription. (A commit that raises leaves no row and no job: that
\* request changes nothing. A refresh that raises leaves the row without a job.)
\* The handler is a coroutine on the event loop: no other upload runs between its
\* commit and its enqueue.
Upload(t) ==
    /\ phase = "serving"
    /\ t = EventLoop
    /\ cpc[t] = "idle"
    /\ nextId <= NumVideos
    /\ videos' = [videos EXCEPT ![nextId] = NewVideo]
    /\ nextId' = nextId + 1
    /\ \/ /\ cop' = [cop EXCEPT ![t] = "upload"]
          /\ carg' = [carg EXCEPT ![t] = nextId]
          /\ cpc' = [cpc EXCEPT ![t] = "append"]
          /\ UNCHANGED lost
       \/ /\ lost' = lost \cup {nextId}  \* db.refresh(video) raises after the commit:
          /\ UNCHANGED << cop, carg, cpc >> \* the except clause reports it, no enqueue
    /\ UNCHANGED << phase, modelVars, task_queue, worker_thread, registryVars,
                    workerVars, cld, stuck, retries, crashes, nextSeq, takes, lastTaken,
                    finished, statusAtStart, scanRes, scanEnq, orphaned >>
    /\ UNCHANGED auxVars

\* delete_video: db.delete(video); db.commit() (the transcription goes with it)
DeleteVideo(t, v) ==
    /\ phase = "serving"
    /\ t \in PoolThreads
    /\ cpc[t] = "idle"
    /\ videos[v].status # "none"
    /\ videos' = [videos EXCEPT ![v] = NoVideo]
    /\ orphaned' = orphaned \cup
                      {task_queue[i].seq : i \in {j \in 1..Len(task_queue) : task_queue[j].vid = v}}
    /\ UNCHANGED << nextId, phase, modelVars, task_queue, worker_thread, registryVars,
                    workerVars, callerVars, stuck, retries, crashes, nextSeq, takes,
                    lastTaken, finished, statusAtStart, scanRes, scanEnq, lost >>
    /\ UNCHANGED auxVars

\* ----------------------------------------------------------- crash
\* The process dies at any point and is started again: only the database survives.
Crash ==
    /\ crashes < MaxCrashes
    /\ crashes' = crashes + 1
    /\ statusAtStart' = [v \in Videos |-> videos[v].status]
    /\ phase' = "startup"
    /\ model' = FALSE
    /\ model_loading' = FALSE
    /\ task_queue' = << >>
    /\ worker_thread' = -1
    /\ current_video_id' = 0
    /\ current_step' = ""
    /\ current_start_time' = FALSE
    /\ queue_video_ids' = << >>
    /\ wpc' = [w \in Workers |-> "none"]
    /\ wjob' = [w \in Workers |-> NoJob]
    /\ wres' = [w \in Workers |-> ""]
    /\ wstaged' = [w \in Workers |-> FALSE]
    /\ cpc' = [c \in Callers |-> IF c = Main THEN "scan_query" ELSE "idle"]
    /\ carg' = [c \in Callers |-> 0]
    /\ cld' = [c \in Callers |-> NoVideo]
    /\ cop' = [c \in Callers |-> IF c = Main THEN "scan" ELSE ""]
    /\ stuck' = {}
    /\ retries' = 0
    /\ nextSeq' = 1
    /\ takes' = 0
    /\ lastTaken' = 0
    /\ finished' = 0
    /\ scanRes' = [v \in Videos |-> "none"]
    /\ scanEnq' = [v \in Videos |-> 0]
    /\ lost' = {}
    /\ orphaned' = {}
    /\ UNCHANGED dbVars
    /\ UNCHANGED auxVars

\* ------------------------------------------------------- the system
\* every step but the deletion of a video
NextNoDelete ==
    \/ ScanQuery
    \/ \E v \in Videos : ScanReset(v)
    \/ ScanDone
    \/ \E c \in Callers : EnqAppend(c)
    \/ \E c \in Callers : EnqCheck(c)
    \/ \E c \in Callers : EnqStart(c)
    \/ \E c \in Callers : EnqPut(c)
    \/ \E w \in Workers : Worker(w)
    \/ \E t \in Threads, v \in Videos : RetryBegin(t, v)
    \/ \E t \in Threads : RetryDelete(t)
    \/ \E t \in Threads : RetryWrite(t)
    \/ \E t \in Threads : Upload(t)
    \/ Crash

Next ==
    \/ NextNoDelete
    \/ \E t \in Threads, v \in Videos : DeleteVideo(t, v)

Spec == Init /\ [][Next]_vars

\* Scheduling: every started thread keeps running (the worker, the scan, a handler
\* that was entered).  Requests and crashes come from outside and need not happen.
Fairness ==
    /\ WF_vars(ScanQuery)
    /\ WF_vars(\E v \in Videos : ScanReset(v))
    /\ WF_vars(ScanDone)
    /\ \A c \in Callers :
          WF_vars(EnqAppend(c) \/ EnqCheck(c) \/ EnqStart(c) \/ EnqPut(c))
    /\ \A t \in Threads : WF_vars(RetryDelete(t) \/ RetryWrite(t))
    /\ \A w \in Workers : WF_vars(Worker(w))

\* the pipeline with no video deleted, under that scheduling
FairSpec == Init /\ [][NextNoDelete]_vars /\ Fairness

\* ------------------------------------------------ repeated retries
\* The pipeline of one video that is retried more than once in a process lifetime.
\* retry_transcription, as RetryBegin, for up to MaxRepeats requests per lifetime
RetryAgain(t, v) ==
    /\ phase = "serving"
    /\ t \in PoolThreads
    /\ cpc[t] = "idle"
    /\ retries < MaxRepeats
    /\ RetryAccepts(v)
    /\ retries' = retries + 1
    /\ cop' = [cop EXCEPT ![t] = "retry"]
    /\ carg' = [carg EXCEPT ![t] = v]
    /\ cld' = [cld EXCEPT ![t] = videos[v]]
    /\ cpc' = [cpc EXCEPT ![t] = IF videos[v].transcription THEN "retry_delete"
                                 ELSE "retry_write"]
    /\ UNCHANGED << dbVars, phase, modelVars, task_queue, worker_thread, registryVars,
                    workerVars, stuck, crashes, histVars >>
    /\ UNCHANGED auxVars

\* upload_videos with a single file, once
UploadFirst(t) ==
    /\ nextId = 1
    /\ Upload(t)

RetryNext ==
    \/ ScanQuery
    \/ \E v \in Videos : ScanReset(v)
    \/ ScanDone
    \/ \E c \in Callers : EnqAppend(c)
    \/ \E c \in Callers : EnqCheck(c)
    \/ \E c \in Callers : EnqStart(c)
    \/ \E c \in Callers : EnqPut(c)
    \/ \E w \in Workers : Worker(w)
    \/ \E t \in Threads, v \in Videos : RetryAgain(t, v)
    \/ \E t \in Threads : RetryDelete(t)
    \/ \E t \in Threads : RetryWrite(t)
    \/ \E t \in Threads : UploadFirst(t)
    \/ Crash

RetrySpec == Init /\ [][RetryNext]_vars

\* ------------------------------------------------------ reused ids
\* The pipeline on the default database (config.py: DATABASE_URL = "sqlite:///...").
\* Video.id is an INTEGER PRIMARY KEY without the AUTOINCREMENT keyword: a new
\* row gets the largest id of the table plus one, so the id of a deleted last
\* row is given out again.
MaxRowId ==
    LET rows == {v \in Videos : videos[v].status # "none"} IN
    IF rows = {} THEN 0 ELSE CHOOSE m \in rows : \A v \in rows : v <= m

\* upload_videos as Upload, the new row taking the id SQLite gives it
\* (nextId counts the rows inserted so far)
UploadReused(t) ==
    /\ phase = "serving"
    /\ t = EventLoop
    /\ cpc[t] = "idle"
    /\ nextId <= NumVideos
    /\ MaxRowId < NumVideos
    /\ videos' = [videos EXCEPT ![MaxRowId + 1] = NewVideo]
    /\ nextId' = nextId + 1
    /\ \/ /\ cop' = [cop EXCEPT ![t] = "upload"]
          /\ carg' = [carg EXCEPT ![t] = MaxRowId + 1]
          /\ cpc' = [cpc EXCEPT ![t] = "append"]
          /\ UNCHANGED lost
       \/ /\ lost' = lost \cup {MaxRowId + 1}
          /\ UNCHANGED << cop, carg, cpc >>
    /\ UNCHANGED << phase, modelVars, task_queue, worker_thread, registryVars,
                    workerVars, cld, stuck, retries, crashes, nextSeq, takes, lastTaken,
                    finished, statusAtStart, scanRes, scanEnq, orphaned >>
    /\ UNCHANGED auxVars

ReuseNext ==
    \/ ScanQuery
    \/ ScanDone
    \/ \E c \in Callers : EnqAppend(c)
    \/ \E c \in Callers : EnqCheck(c)
    \/ \E c \in Callers : EnqStart(c)
    \/ \E c \in Callers : EnqPut(c)
    \/ \E w \in Workers : Worker(w)
    \/ \E t \in Threads : UploadReused(t)
    \/ \E t \in Threads, v \in Videos : DeleteVideo(t, v)

ReuseSpec == Init /\ [][ReuseNext]_vars

\* ============================================ Gemini dispatcher
\* gemini_service.py: analyze_cm_effectiveness, analyze_ranking_comparison and
\* analyze_psychological_content share one body (load the keys, loop over
\* range(len(keys)), _next_key, one request per iteration); a call of any of the
\* three is a dispatch.

\* (mutant) the empty pool is not detected
EmptyPoolNever(d) == FALSE

\* if not keys
EmptyPool(d) == dn[d] = 0

\* (mutant) one iteration more than keys loaded
AttemptsOneMore(d) == dn[d] + 1

\* range(len(keys))
Attempts(d) == dn[d]

\* (mutant) every selection returns the first key
KeyAtFirst(i, n) == 0

\* idx = _key_index % len(keys)
KeyAt(i, n) == i % n

\* (mutant) every error is taken for a rate-limit error
IsRateLimitAlways(o) == TRUE

\* "429" in err_str or "quota" in err_str or "rate" in err_str or ...
IsRateLimit(o) == o = "rate"

\* (mutant) the critical section is entered without the lock
LockIgnored == TRUE

\* with _key_lock: the lock can be taken
LockFree == key_lock = 0

\* (mutant) a caller keeps the keys its previous call loaded
get_api_keys_cached(d) == IF dpc[d] = "done" THEN dn[d] ELSE pool

\* get_api_keys(db): the keys stored now (their number)
get_api_keys(d) == pool

\* get_selected_model(db): return val if val else "gemini-2.5-flash"
get_selected_model == IF gemini_model = 0 THEN DefaultModel ELSE gemini_model

\* keys, model = _get_keys_and_model(); if not keys: raise RuntimeError(...)
DLoad(d) ==
    /\ dpc[d] \in {"idle", "done"}
    /\ calls < MaxCalls
    /\ calls' = calls + 1
    /\ dn' = [dn EXCEPT ![d] = get_api_keys(d)]
    /\ dmodel' = [dmodel EXCEPT ![d] = get_selected_model]
    /\ dattempt' = [dattempt EXCEPT ![d] = 0]
    /\ didx' = [didx EXCEPT ![d] = 0]
    /\ dtmp' = [dtmp EXCEPT ![d] = 0]
    /\ dmade' = [dmade EXCEPT ![d] = 0]
    /\ dkey' = [dkey EXCEPT ![d] = 0]
    /\ dobs' = [dobs EXCEPT ![d] = -1]
    /\ dstart' = [dstart EXCEPT ![d] = -1]
    /\ dsolo' = [dsolo EXCEPT ![d] = TRUE]
    /\ dscen' = [dscen EXCEPT ![d] = TRUE]
    /\ dstop' = [dstop EXCEPT ![d] = 0]
    /\ IF EmptyPool(d)'
       THEN /\ dres' = [dres EXCEPT ![d] = "config_error"]
            /\ dpc' = [dpc EXCEPT ![d] = "done"]
       ELSE /\ dres' = [dres EXCEPT ![d] = ""]
            /\ dpc' = [dpc EXCEPT ![d] = "loop"]
    /\ UNCHANGED << key_index, key_lock, pool, selections, observed, repeated, gemini_model >>
    /\ UNCHANGED << pipeVars, observeVars, parseVars >>

\* for attempt in range(len(keys)): ... ; after the loop:
\* raise RuntimeError(f"...: {last_error}")
DLoop(d) ==
    /\ dpc[d] = "loop"
    /\ IF dattempt[d] < Attempts(d)
       THEN /\ dattempt' = [dattempt EXCEPT ![d] = @ + 1]
            /\ dpc' = [dpc EXCEPT ![d] = "next_key"]
            /\ UNCHANGED dres
       ELSE /\ dres' = [dres EXCEPT ![d] = "exhausted"]
            /\ dpc' = [dpc EXCEPT ![d] = "done"]
            /\ UNCHANGED dattempt
    /\ UNCHANGED << key_index, key_lock, pool, calls, dn, didx, dtmp, dmade, dkey, dobs,
                    dstart, dsolo, dscen, dstop, selections, observed, repeated,
                    gemini_model, dmodel >>
    /\ UNCHANGED << pipeVars, observeVars, parseVars >>

\* _next_key: if not keys: raise RuntimeError(...); with _key_lock:
NkAcquire(d) ==
    /\ dpc[d] = "next_key"
    /\ \/ /\ dn[d] = 0
          /\ dres' = [dres EXCEPT ![d] = "config_error"]
          /\ dpc' = [dpc EXCEPT ![d] = "done"]
          /\ UNCHANGED key_lock
       \/ /\ dn[d] > 0
          /\ LockFree
          /\ key_lock' = d
          /\ dpc' = [dpc EXCEPT ![d] = "index"]
          /\ UNCHANGED dres
    /\ UNCHANGED << key_index, pool, calls, dn, dattempt, didx, dtmp, dmade, dkey, dobs,
                    dstart, dsolo, dscen, dstop, selections, observed, repeated,
                    gemini_model, dmodel >>
    /\ UNCHANGED << pipeVars, observeVars, parseVars >>

\* idx = _key_index % len(keys)
NkIndex(d) ==
    /\ dpc[d] = "index"
    /\ didx' = [didx EXCEPT ![d] = KeyAt(key_index, dn[d])]
    /\ dobs' = [dobs EXCEPT ![d] = key_index]
    /\ dstart' = [dstart EXCEPT ![d] = IF @ = -1 THEN key_index ELSE @]
    /\ dsolo' = [e \in Dispatchers |->
                    IF e # d /\ dpc[e] \notin {"idle", "done"} THEN FALSE ELSE dsolo[e]]
    /\ repeated' = (repeated \/ key_index \in observed)
    /\ observed' = observed \cup {key_index}
    /\ dpc' = [dpc EXCEPT ![d] = "load"]
    /\ UNCHANGED << key_index, key_lock, pool, calls, dn, dattempt, dtmp, dmade, dres,
                    dkey, dscen, dstop, selections, gemini_model, dmodel >>
    /\ UNCHANGED << pipeVars, observeVars, parseVars >>

\* _key_index += 1, the load
NkLoad(d) ==
    /\ dpc[d] = "load"
    /\ dtmp' = [dtmp EXCEPT ![d] = key_index]
    /\ dpc' = [dpc EXCEPT ![d] = "store"]
    /\ UNCHANGED << key_index, key_lock, pool, calls, dn, dattempt, didx, dmade, dres,
                    dkey, dobs, dstart, dsolo, dscen, dstop, selections, observed,
                    repeated, gemini_model, dmodel >>
    /\ UNCHANGED << pipeVars, observeVars, parseVars >>

\* _key_index += 1, the store; the lock is released; return keys[idx]
NkStore(d) ==
    /\ dpc[d] = "store"
    /\ key_index' = dtmp[d] + 1
    /\ key_lock' = 0
    /\ selections' = selections + 1
    /\ dpc' = [dpc EXCEPT ![d] = "call"]
    /\ UNCHANGED << pool, calls, dn, dattempt, didx, dtmp, dmade, dres, dkey, dobs,
                    dstart, dsolo, dscen, dstop, observed, repeated, gemini_model, dmodel >>
    /\ UNCHANGED << pipeVars, observeVars, parseVars >>

\* client.models.generate_content(...) with the selected key, then
\* return _parse_response(...) / except Exception: last_error = e; continue or raise
DCall(d) ==
    /\ dpc[d] = "call"
    /\ \E o \in Outcomes :
        LET cred == didx[d] + 1 IN
        /\ dmade' = [dmade EXCEPT ![d] = @ + 1]
        /\ dkey' = [dkey EXCEPT ![d] = cred]
        /\ dscen' = [dscen EXCEPT ![d] =
                        @ /\ (cred = 3 => o = "ok") /\ (cred \in {1, 2} => o = "rate")]
        /\ dstop' = [dstop EXCEPT ![d] =
                        IF @ = 0 /\ o # "rate" THEN dmade[d] + 1 ELSE @]
        /\ IF o = "ok"
           THEN /\ dres' = [dres EXCEPT ![d] = "ok"]
                /\ dpc' = [dpc EXCEPT ![d] = "done"]
           ELSE IF IsRateLimit(o)
           THEN /\ dpc' = [dpc EXCEPT ![d] = "loop"]
                /\ UNCHANGED dres
           ELSE /\ dres' = [dres EXCEPT ![d] = "other_error"]
                /\ dpc' = [dpc EXCEPT ![d] = "done"]
    /\ UNCHANGED << key_index, key_lock, pool, calls, dn, dattempt, didx, dtmp, dobs,
                    dstart, dsolo, selections, observed, repeated, gemini_model, dmodel >>
    /\ UNCHANGED << pipeVars, observeVars, parseVars >>

\* settings router: add_api_key appends a key to the stored list
AddKey ==
    /\ pool < MaxKeys
    /\ pool' = pool + 1
    /\ UNCHANGED << key_index, key_lock, calls, dpc, dn, dattempt, didx, dtmp, dmade,
                    dres, dkey, dobs, dstart, dsolo, dscen, dstop, selections, observed,
                    repeated, gemini_model, dmodel >>
    /\ UNCHANGED << pipeVars, observeVars, parseVars >>

\* settings router: remove_api_key pops a key from the stored list
RemoveKey ==
    /\ pool > 0
    /\ pool' = pool - 1
    /\ UNCHANGED << key_index, key_lock, calls, dpc, dn, dattempt, didx, dtmp, dmade,
                    dres, dkey, dobs, dstart, dsolo, dscen, dstop, selections, observed,
                    repeated, gemini_model, dmodel >>
    /\ UNCHANGED << pipeVars, observeVars, parseVars >>

\* settings router: set_model_setting stores a model identifier (0: an empty one)
SetModel(m) ==
    /\ m # gemini_model
    /\ gemini_model' = m
    /\ UNCHANGED << key_index, key_lock, pool, calls, dpc, dn, dattempt, didx, dtmp,
                    dmade, dres, dkey, dobs, dstart, dsolo, dscen, dstop, selections,
                    observed, repeated, dmodel >>
    /\ UNCHANGED << pipeVars, observeVars, parseVars >>

DispatchNext ==
    \/ \E d \in Dispatchers : DLoad(d)
    \/ \E d \in Dispatchers : DLoop(d)
    \/ \E d \in Dispatchers : NkAcquire(d)
    \/ \E d \in Dispatchers : NkIndex(d)
    \/ \E d \in Dispatchers : NkLoad(d)
    \/ \E d \in Dispatchers : NkStore(d)
    \/ \E d \in Dispatchers : DCall(d)
    \/ AddKey
    \/ RemoveKey
    \/ \E m \in {0} \cup ModelIds : SetModel(m)

DispatchSpec == Init /\ [][DispatchNext]_vars

\* ============================================ response parsing
\* gemini_service._parse_response, applied to every text of at most MaxLen
\* characters.

\* str.strip(): blanks and newlines are whitespace
IsSpace(c) == c \in {"S", "N"}

RECURSIVE LStrip(_)
LStrip(s) == IF s # << >> /\ IsSpace(Head(s)) THEN LStrip(Tail(s)) ELSE s

RECURSIVE RStrip(_)
RStrip(s) ==
    IF s # << >> /\ IsSpace(s[Len(s)]) THEN RStrip(SubSeq(s, 1, Len(s) - 1)) ELSE s

Strip(s) == RStrip(LStrip(s))

\* cleaned.startswith("```")
StartsWithFence(s) == s # << >> /\ Head(s) = "F"

\* cleaned.split("\n"): the lines, at least one
RECURSIVE SplitLines(_)
SplitLines(s) ==
    IF \E i \in 1..Len(s) : s[i] = "N"
    THEN LET i == CHOOSE j \in 1..Len(s) :
                     s[j] = "N" /\ \A k \in 1..(j - 1) : s[k] # "N"
         IN << SubSeq(s, 1, i - 1) >> \o SplitLines(SubSeq(s, i + 1, Len(s)))
    ELSE << s >>

\* "\n".join(lines)
RECURSIVE JoinLines(_)
JoinLines(lines) ==
    IF lines = << >> THEN << >>
    ELSE IF Len(lines) = 1 THEN lines[1]
    ELSE lines[1] \o << "N" >> \o JoinLines(Tail(lines))

\* (mutant) the closing fence line is kept
KeepClosingFence(lines) == lines

\* if lines and lines[-1].strip() == "```": lines = lines[:-1]
DropClosingFence(lines) ==
    IF lines # << >> /\ Strip(lines[Len(lines)]) = << "F" >>
    THEN SubSeq(lines, 1, Len(lines) - 1)
    ELSE lines

\* lines = cleaned.split("\n"); lines = lines[1:]; ...; cleaned = "\n".join(lines)
Unfence(s) == JoinLines(DropClosingFence(Tail(SplitLines(s))))

\* json.loads raises json.JSONDecodeError
JSONDecodeError == [tag |-> "JSONDecodeError"]

\* json.loads raises RecursionError (the decoder recurses once per nested array)
RecursionError == [tag |-> "RecursionError"]

\* the arrays the decoder has entered when it has read the opening brackets at
\* the start of s
RECURSIVE Depth(_)
Depth(s) ==
    LET t == LStrip(s) IN
    IF t # << >> /\ Head(t) = "[" THEN 1 + Depth(Tail(t)) ELSE 0

\* s is one value: a number (one or more digits), or an array that is empty or
\* holds one value, with whitespace allowed around values
RECURSIVE IsValue(_)
IsValue(s) ==
    LET t == Strip(s) IN
    \/ t # << >> /\ \A i \in 1..Len(t) : t[i] = "1"
    \/ /\ Len(t) >= 2 /\ Head(t) = "[" /\ t[Len(t)] = "]"
       /\ LET inner == Strip(SubSeq(t, 2, Len(t) - 1)) IN
          inner = << >> \/ IsValue(inner)

\* json.loads(cleaned): the value decoded (written without whitespace), or the
\* exception raised
json_loads(s) ==
    IF Depth(s) > RecursionLimit THEN RecursionError
    ELSE IF IsValue(s) THEN [tag |-> "json", value |-> SelectSeq(s, LAMBDA c : ~IsSpace(c))]
    ELSE JSONDecodeError

\* the dict returned when decoding fails
Fallback(cleaned) ==
    [tag |-> "fallback", summary |-> cleaned, effective_keywords |-> << >>,
     effective_phrases |-> << >>, correlation_insights |-> << >>,
     recommendations |-> << >>, funnel_suggestions |-> << >>]

\* try: return json.loads(cleaned) / except json.JSONDecodeError: return {...}
\* (any other exception leaves _parse_response)
Decode(cleaned) ==
    IF json_loads(cleaned) = JSONDecodeError THEN Fallback(cleaned)
    ELSE IF json_loads(cleaned) = RecursionError
    THEN [tag |-> "raised", error |-> "RecursionError"]
    ELSE json_loads(cleaned)

\* _parse_response(text), as a whole
parse_response(text) ==
    LET cleaned == Strip(text) IN
    Decode(IF StartsWithFence(cleaned) THEN Unfence(cleaned) ELSE cleaned)

\* cleaned = text.strip()
PStrip ==
    /\ ppc = "strip"
    /\ pcleaned' = Strip(ptext)
    /\ ppc' = "fence"
    /\ UNCHANGED << ptext, presult >>
    /\ UNCHANGED << pipeVars, dispatchVars, observeVars >>

\* if cleaned.startswith("```"): ... cleaned = "\n".join(lines)
PFence ==
    /\ ppc = "fence"
    /\ pcleaned' = IF StartsWithFence(pcleaned) THEN Unfence(pcleaned) ELSE pcleaned
    /\ ppc' = "decode"
    /\ UNCHANGED << ptext, presult >>
    /\ UNCHANGED << pipeVars, dispatchVars, observeVars >>

\* try: return json.loads(cleaned) / except json.JSONDecodeError: return {...}
PDecode ==
    /\ ppc = "decode"
    /\ presult' = Decode(pcleaned)
    /\ ppc' = "done"
    /\ UNCHANGED << ptext, pcleaned >>
    /\ UNCHANGED << pipeVars, dispatchVars, observeVars >>

ParseNext ==
    \/ PStrip
    \/ PFence
    \/ PDecode

\* a call _parse_response(text) begins, for any text
ParseInit ==
    /\ videos = [v \in Videos |-> NoVideo]
    /\ nextId = 1
    /\ crashes = 0
    /\ statusAtStart = [v \in Videos |-> "none"]
    /\ FreshProcess
    /\ DispatchStart
    /\ ObserveStart
    /\ ptext \in Texts
    /\ ppc = "strip"
    /\ pcleaned = << >>
    /\ presult = NoResult

ParseSpec == ParseInit /\ [][ParseNext]_vars

\* ==================================== registry and model, by statement
\* transcription_service.py once the worker thread runs: every statement that
\* reads or writes the registry or _model / _model_loading is a step, _lock is
\* explicit.  The database steps of a job are those of the pipeline above and
\* are left out here.

pipeRest == << videos, nextId, phase, worker_thread, wpc, wjob, wres, wstaged, cpc, carg, cld, cop,
               stuck, retries, crashes, histVars >>

\* what get_queue_status reports, were it evaluated in one instant
Registry ==
    [model_loaded |-> model, model_loading |-> model_loading,
     queue_size |-> Len(queue_video_ids), queue_video_ids |-> queue_video_ids,
     current_video_id |-> current_video_id, current_step |-> current_step,
     current_elapsed_seconds |-> current_start_time]

\* (history) the registry contents that exist while a get_queue_status call runs
Track ==
    during' = IF spc' \in {"read", "ret"}
              THEN (IF spc \in {"read", "ret"} THEN during ELSE {}) \cup {Registry'}
              ELSE during

\* enqueue_transcription: with _lock: append; _task_queue.put
REnqueue(v) ==
    /\ jobs < MaxJobs
    /\ lock = ""
    /\ jobs' = jobs + 1
    /\ queue_video_ids' = Append(queue_video_ids, v)
    /\ task_queue' = Append(task_queue, [seq |-> jobs + 1, vid |-> v])
    /\ UNCHANGED << pipeRest, dispatchVars, parseVars, modelVars, current_video_id, current_step,
                    current_start_time, lock, rpc, rjob, gpc, ginst, model_id, gret,
                    built, spc, sfield, snap, reads >>
    /\ Track

\* video_id, filepath = _task_queue.get()
RGet ==
    /\ rpc = "get"
    /\ task_queue # << >>
    /\ rjob' = Head(task_queue).vid
    /\ task_queue' = Tail(task_queue)
    /\ rpc' = "acquire"
    /\ UNCHANGED << pipeRest, dispatchVars, parseVars, modelVars, registryVars, lock, jobs, gpc,
                    ginst, model_id, gret, built, spc, sfield, snap, reads >>
    /\ Track

\* with _lock: (entering either critical section of _worker)
RAcquire ==
    /\ rpc \in {"acquire", "fin_acquire"}
    /\ lock = ""
    /\ lock' = "worker"
    /\ rpc' = IF rpc = "acquire" THEN "set_id" ELSE "clear_id"
    /\ UNCHANGED << pipeRest, dispatchVars, parseVars, modelVars, registryVars, task_queue, rjob,
                    jobs, gpc, ginst, model_id, gret, built, spc, sfield, snap, reads >>
    /\ Track

\* _current_video_id = video_id
RSetId ==
    /\ rpc = "set_id"
    /\ current_video_id' = rjob
    /\ rpc' = "set_start"
    /\ UNCHANGED << pipeRest, dispatchVars, parseVars, modelVars, task_queue, current_step,
                    current_start_time, queue_video_ids, lock, rjob, jobs, gpc, ginst,
                    model_id, gret, built, spc, sfield, snap, reads >>
    /\ Track

\* _current_start_time = time.time()
RSetStart ==
    /\ rpc = "set_start"
    /\ current_start_time' = TRUE
    /\ rpc' = "remove"
    /\ UNCHANGED << pipeRest, dispatchVars, parseVars, modelVars, task_queue, current_video_id,
                    current_step, queue_video_ids, lock, rjob, jobs, gpc, ginst,
                    model_id, gret, built, spc, sfield, snap, reads >>
    /\ Track

\* (mutant) the first critical section of _worker is not left
RRemoveKeepsLock ==
    /\ rpc = "remove"
    /\ queue_video_ids' = RemoveFirst(queue_video_ids, rjob)
    /\ rpc' = "begin"
    /\ UNCHANGED << pipeRest, dispatchVars, parseVars, modelVars, task_queue, current_video_id,
                    current_step, current_start_time, lock, rjob, jobs, gpc, ginst,
                    model_id, gret, built, spc, sfield, snap, reads >>
    /\ Track

\* if video_id in _queue_video_ids: _queue_video_ids.remove(video_id); lock released
RRemove ==
    /\ rpc = "remove"
    /\ queue_video_ids' = RemoveFirst(queue_video_ids, rjob)
    /\ lock' = ""
    /\ rpc' = "begin"
    /\ UNCHANGED << pipeRest, dispatchVars, parseVars, modelVars, task_queue, current_video_id,
                    current_step, current_start_time, rjob, jobs, gpc, ginst, model_id,
                    gret, built, spc, sfield, snap, reads >>
    /\ Track

\* _transcribe_video up to the first commit: it goes on, or it ends there (no
\* row, or the database raises and _mark_error runs)
RBegin ==
    /\ rpc = "begin"
    /\ rpc' \in {"step_loading", "fin_acquire"}
    /\ UNCHANGED << pipeRest, dispatchVars, parseVars, modelVars, registryVars, task_queue, lock,
                    rjob, jobs, gpc, ginst, model_id, gret, built, spc, sfield, snap,
                    reads >>
    /\ Track

\* with _lock: _current_step = "model_loading"; then model = get_model()
RStepLoading ==
    /\ rpc = "step_loading"
    /\ lock = ""
    /\ current_step' = "model_loading"
    /\ rpc' = "get_model"
    /\ gpc' = [gpc EXCEPT !["worker"] = "check"]
    /\ UNCHANGED << pipeRest, dispatchVars, parseVars, modelVars, task_queue, current_video_id,
                    current_start_time, queue_video_ids, lock, rjob, jobs, ginst,
                    model_id, gret, built, spc, sfield, snap, reads >>
    /\ Track

\* lifespan: threading.Thread(target=_preload, daemon=True).start(); get_model()
PreloadStart ==
    /\ gpc["preload"] = "idle"
    /\ gpc' = [gpc EXCEPT !["preload"] = "check"]
    /\ UNCHANGED << pipeRest, dispatchVars, parseVars, modelVars, registryVars, task_queue, lock,
                    rpc, rjob, jobs, ginst, model_id, gret, built, spc, sfield, snap,
                    reads >>
    /\ Track

\* get_model: if _model is None:
GmCheck(l) ==
    /\ gpc[l] = "check"
    /\ gpc' = [gpc EXCEPT ![l] = IF model THEN "ret" ELSE "set"]
    /\ UNCHANGED << pipeRest, dispatchVars, parseVars, modelVars, registryVars, task_queue, lock,
                    rpc, rjob, jobs, ginst, model_id, gret, built, spc, sfield, snap,
                    reads >>
    /\ Track

\* _model_loading = True
GmSet(l) ==
    /\ gpc[l] = "set"
    /\ model_loading' = TRUE
    /\ gpc' = [gpc EXCEPT ![l] = "load"]
    /\ UNCHANGED << pipeRest, dispatchVars, parseVars, model, registryVars, task_queue, lock, rpc,
                    rjob, jobs, ginst, model_id, gret, built, spc, sfield, snap, reads >>
    /\ Track

\* whisper.load_model(...) constructs an instance, or raises: the exception
\* leaves get_model (caught by _preload, or by _worker which goes to finally)
GmLoad(l) ==
    /\ gpc[l] = "load"
    /\ \/ /\ built' = built + 1
          /\ ginst' = [ginst EXCEPT ![l] = built + 1]
          /\ gpc' = [gpc EXCEPT ![l] = "assign"]
          /\ UNCHANGED rpc
       \/ /\ gpc' = [gpc EXCEPT ![l] = IF l = "preload" THEN "done" ELSE "out"]
          /\ rpc' = IF l = "worker" THEN "fin_acquire" ELSE rpc
          /\ UNCHANGED << built, ginst >>
    /\ UNCHANGED << pipeRest, dispatchVars, parseVars, modelVars, registryVars, task_queue, lock,
                    rjob, jobs, model_id, gret, spc, sfield, snap, reads >>
    /\ Track

\* _model = <the instance loaded>
GmAssign(l) ==
    /\ gpc[l] = "assign"
    /\ model' = TRUE
    /\ model_id' = ginst[l]
    /\ gpc' = [gpc EXCEPT ![l] = "clear"]
    /\ UNCHANGED << pipeRest, dispatchVars, parseVars, model_loading, registryVars, task_queue,
                    lock, rpc, rjob, jobs, ginst, gret, built, spc, sfield, snap,
                    reads >>
    /\ Track

\* _model_loading = False
GmClear(l) ==
    /\ gpc[l] = "clear"
    /\ model_loading' = FALSE
    /\ gpc' = [gpc EXCEPT ![l] = "ret"]
    /\ UNCHANGED << pipeRest, dispatchVars, parseVars, model, registryVars, task_queue, lock, rpc,
                    rjob, jobs, ginst, model_id, gret, built, spc, sfield, snap, reads >>
    /\ Track

\* return _model
GmRet(l) ==
    /\ gpc[l] = "ret"
    /\ gret' = [gret EXCEPT ![l] = model_id]
    /\ gpc' = [gpc EXCEPT ![l] = IF l = "preload" THEN "done" ELSE "out"]
    /\ rpc' = IF l = "worker" THEN "step_transcribing" ELSE rpc
    /\ UNCHANGED << pipeRest, dispatchVars, parseVars, modelVars, registryVars, task_queue, lock,
                    rjob, jobs, ginst, model_id, built, spc, sfield, snap, reads >>
    /\ Track

\* with _lock: _current_step = "transcribing"
RStepTranscribing ==
    /\ rpc = "step_transcribing"
    /\ lock = ""
    /\ current_step' = "transcribing"
    /\ rpc' = "engine"
    /\ UNCHANGED << pipeRest, dispatchVars, parseVars, modelVars, task_queue, current_video_id,
                    current_start_time, queue_video_ids, lock, rjob, jobs, gpc, ginst,
                    model_id, gret, built, spc, sfield, snap, reads >>
    /\ Track

\* model.transcribe(...) and the save, or an exception and _mark_error: either
\* way the finally clause comes next
REngine ==
    /\ rpc = "engine"
    /\ rpc' = "fin_acquire"
    /\ UNCHANGED << pipeRest, dispatchVars, parseVars, modelVars, registryVars, task_queue, lock,
                    rjob, jobs, gpc, ginst, model_id, gret, built, spc, sfield, snap,
                    reads >>
    /\ Track

\* finally: _current_video_id = None
RClearId ==
    /\ rpc = "clear_id"
    /\ current_video_id' = 0
    /\ rpc' = "clear_step"
    /\ UNCHANGED << pipeRest, dispatchVars, parseVars, modelVars, task_queue, current_step,
                    current_start_time, queue_video_ids, lock, rjob, jobs, gpc, ginst,
                    model_id, gret, built, spc, sfield, snap, reads >>
    /\ Track

\* _current_step = ""
RClearStep ==
    /\ rpc = "clear_step"
    /\ current_step' = ""
    /\ rpc' = "clear_start"
    /\ UNCHANGED << pipeRest, dispatchVars, parseVars, modelVars, task_queue, current_video_id,
                    current_start_time, queue_video_ids, lock, rjob, jobs, gpc, ginst,
                    model_id, gret, built, spc, sfield, snap, reads >>
    /\ Track

\* _current_start_time = None; the lock is released; _task_queue.task_done()
RClearStart ==
    /\ rpc = "clear_start"
    /\ current_start_time' = FALSE
    /\ lock' = ""
    /\ rjob' = 0
    /\ rpc' = "get"
    /\ UNCHANGED << pipeRest, dispatchVars, parseVars, modelVars, task_queue, current_video_id,
                    current_step, queue_video_ids, jobs, gpc, ginst, model_id, gret,
                    built, spc, sfield, snap, reads >>
    /\ Track

\* get_queue_status: with _lock:
SAcquire ==
    /\ spc \in {"idle", "done"}
    /\ reads < MaxReads
    /\ lock = ""
    /\ lock' = "observer"
    /\ reads' = reads + 1
    /\ spc' = "read"
    /\ sfield' = 1
    /\ snap' = NoSnapshot
    /\ UNCHANGED << pipeRest, dispatchVars, parseVars, modelVars, registryVars, task_queue, rpc,
                    rjob, jobs, gpc, ginst, model_id, gret, built >>
    /\ Track

\* the next entry of the dict is evaluated: "model_loaded": _model is not None, ...
\* (list(_queue_video_ids) is a copy)
SRead ==
    /\ spc = "read"
    /\ snap' = [snap EXCEPT ![Fields[sfield]] = Registry[Fields[sfield]]]
    /\ IF sfield < Len(Fields)
       THEN sfield' = sfield + 1 /\ spc' = "read"
       ELSE sfield' = sfield /\ spc' = "ret"
    /\ UNCHANGED << pipeRest, dispatchVars, parseVars, modelVars, registryVars, task_queue, lock,
                    rpc, rjob, jobs, gpc, ginst, model_id, gret, built, reads >>
    /\ Track

\* return {...}; the lock is released
SReturn ==
    /\ spc = "ret"
    /\ lock' = ""
    /\ spc' = "done"
    /\ UNCHANGED << pipeRest, dispatchVars, parseVars, modelVars, registryVars, task_queue, rpc,
                    rjob, jobs, gpc, ginst, model_id, gret, built, sfield, snap, reads >>
    /\ Track

ObserveNext ==
    \/ \E v \in Videos : REnqueue(v)
    \/ RGet
    \/ RAcquire
    \/ RSetId
    \/ RSetStart
    \/ RRemove
    \/ RBegin
    \/ RStepLoading
    \/ PreloadStart
    \/ \E l \in Loaders : GmCheck(l)
    \/ \E l \in Loaders : GmSet(l)
    \/ \E l \in Loaders : GmLoad(l)
    \/ \E l \in Loaders : GmAssign(l)
    \/ \E l \in Loaders : GmClear(l)
    \/ \E l \in Loaders : GmRet(l)
    \/ RStepTranscribing
    \/ REngine
    \/ RClearId
    \/ RClearStep
    \/ RClearStart
    \/ SAcquire
    \/ SRead
    \/ SReturn

ObserveSpec == Init /\ [][ObserveNext]_vars

\* ------------------------------------------------------------ claims
\* C1: at every instant at most one job is in progress: the engine never runs
\* for two jobs at the same time, whatever the interleaving of enqueue calls.
EngineRunning == {w \in Workers : wpc[w] = "engine"}
InProgress == {w \in Workers : wjob[w] # NoJob}
C1_OneJobAtATime == Cardinality(InProgress) <= 1 /\ Cardinality(EngineRunning) <= 1

\* C2: jobs are started in the order they were submitted, and a job is started
\* only when every job submitted before it has finished.
C2_SubmissionOrder ==
    \A w \in Workers : wjob[w] # NoJob => finished = wjob[w].seq - 1

\* C6: the worker loop is started exactly once: at most one worker thread is
\* alive at any time, and once an enqueue call has returned a worker is running.
AliveWorkers == {w \in Workers : IsAlive(w)}
C6_OneWorker ==
    /\ Cardinality(AliveWorkers) <= 1
    /\ nextSeq > 1 => AliveWorkers # {}

\* C3: every job accepted by enqueue_transcription is eventually dequeued and
\* processed, and exactly once: no job is dropped, none is handed out twice
\* (given that engine calls return and the threads keep running).
JobAccepted(j) == j < nextSeq
JobProcessed(j) == j <= lastTaken /\ \A w \in Workers : wjob[w].seq # j
ExactlyOnce ==
    /\ takes = lastTaken
    /\ \A i \in 1..Len(task_queue) : task_queue[i].seq = lastTaken + i
    /\ nextSeq = lastTaken + Len(task_queue) + 1
    /\ finished + Cardinality(InProgress) = takes
    /\ \A w1, w2 \in InProgress : w1 # w2 => wjob[w1].seq # wjob[w2].seq
C3_EventuallyOnce ==
    /\ []ExactlyOnce
    /\ \A j \in JobIds : JobAccepted(j) ~> (JobProcessed(j) \/ ~JobAccepted(j))
C3_Witness == finished = 2 /\ takes = 2 /\ task_queue = << >> /\ InProgress = {}

\* C4 (as stated): the step that ends the processing of a job leaves its entity
\* in `transcribed` when nothing raised and in `error` whenever something raised,
\* whatever happened to the jobs before it.
EndsJob(w) == wpc[w] \notin {"none", "get", "finally"} /\ wpc'[w] = "finally"
C4_Original ==
    [][\A w \in Workers : EndsJob(w) =>
          LET row == videos'[wjob[w].vid] IN
          \/ wres'[w] = "done" /\ row.status = "transcribed"
          \/ wres'[w] = "skipped" /\ row.status = "none"
          \/ wres'[w] \in {"marked", "unmarked"} /\ row.status \in {"error", "none"}]_vars

\* C4 (amended): ... and in `error` whenever something raised, unless the entity
\* is gone or the write of _mark_error itself failed (it is logged, the entity
\* keeps the status it had); an exception always reaches _mark_error.
C4_FailureIsolated ==
    [][\A w \in Workers :
          /\ (wres[w] # "raised" /\ wres'[w] = "raised") => wpc'[w] = "mark"
          /\ EndsJob(w) =>
               LET v == wjob[w].vid
                   row == videos'[v] IN
               \/ wres'[w] = "done" /\ row.status = "transcribed" /\ row.transcription
               \/ wres'[w] = "skipped" /\ row.status = "none"
               \/ wres'[w] = "marked" /\ row.status = "error"
               \/ wres'[w] = "unmarked" /\ row.status = "none"
               \/ wres'[w] = "unmarked" /\ v \in lost' /\ row = videos[v]]_vars
\* job B ends in `transcribed` although job A, processed before it in this
\* lifetime, raised and left its entity in `error`
C4_Witness ==
    \E w \in Workers, a \in Videos :
        /\ wpc[w] = "finally" /\ wres[w] = "done"
        /\ a # wjob[w].vid
        /\ videos[wjob[w].vid].status = "transcribed"
        /\ videos[a].status = "error" /\ statusAtStart[a] # "error"

\* C5: the worker loop never terminates and never lets an exception escape:
\* after any exception (also when recording the error fails) it clears the
\* current job id, step and start time and waits for the next job.
RegistryCleared == current_video_id = 0 /\ current_step = "" /\ ~current_start_time
JobWaiting(v) ==
    \/ \E i \in 1..Len(task_queue) : task_queue[i].vid = v
    \/ \E c \in Callers : carg[c] = v
LeftByCrash(v) ==
    crashes > 0 /\ statusAtStart[v] \in Incomplete /\ videos[v].status \in Incomplete
C8_Original ==
    \A v \in Videos : LeftByCrash(v) ~> (videos[v].status \in Terminal)

\* C8 (amended): after a crash and restart every entity left in `uploaded` or
\* `transcribing` is re-enqueued by the scan and eventually reaches `transcribed`
\* or `error`, unless a write of its status fails on the way (the reset of the
\* scan, the query of the scan, or _mark_error): such an entity stays as it is.
C8_RecoversAfterCrash ==
    \A v \in Videos :
        /\ LeftByCrash(v) ~> (videos[v].status \in Terminal \/ v \in lost)
        /\ (crashes > 0 /\ cpc[Main] = "scan_query" /\ videos[v].status \in Incomplete)
              ~> (scanEnq[v] = 1 \/ v \in lost)
\* an entity that the crash left in `transcribing` has reached a terminal status
C8_Witness ==
    \E v \in Videos :
        crashes > 0 /\ statusAtStart[v] = "transcribing" /\ videos[v].status \in Terminal

\* C9: a failure on one entity does not abort the recovery scan: every entity
\* the query found stays to be visited until it is visited, and when the scan is
\* over each of the others was reset and enqueued exactly once.
C9_ScanSkipsFailures ==
    /\ \A v \in Videos : scanRes[v] = "found" <=> v \in stuck
    /\ stuck # {} => phase = "startup"
    /\ \A u, v \in Videos :
          (phase = "serving" /\ scanRes[u] = "failed" /\ u # v
             /\ statusAtStart[v] \in Incomplete /\ scanRes[v] # "failed")
          => (scanRes[v] = "reset" /\ scanEnq[v] = 1)
\* the reset of one entity failed, the other one was reset and enqueued
C9_Witness ==
    \E u, v \in Videos :
        /\ phase = "serving" /\ scanRes[u] = "failed" /\ scanEnq[u] = 0
        /\ videos[u].status = "transcribing"
        /\ scanRes[v] = "reset" /\ scanEnq[v] = 1

\* C10: the recovery scan never touches an entity that is `transcribed` or
\* `error`: it changes neither its status nor enqueues it; with only such
\* entities the scan changes nothing and starts nothing.
C10_ScanLeavesTerminal ==
    /\ \A v \in Videos : statusAtStart[v] \in Terminal =>
          /\ scanRes[v] = "none" /\ scanEnq[v] = 0 /\ v \notin stuck
          /\ phase = "startup" => (videos[v].status = statusAtStart[v] /\ ~JobWaiting(v))
    /\ (phase = "startup" /\ \A v \in Videos : statusAtStart[v] \notin Incomplete) =>
          /\ task_queue = << >> /\ queue_video_ids = << >> /\ nextSeq = 1
          /\ AliveWorkers = {} /\ worker_thread = -1
          /\ \A v \in Videos : videos[v].status = statusAtStart[v]
\* the scan is over, it enqueued one entity and left a terminal one alone
C10_Witness ==
    \E u, v \in Videos :
        /\ phase = "serving" /\ cpc[Main] = "idle"
        /\ statusAtStart[u] \in Terminal /\ videos[u].status = statusAtStart[u]
        /\ statusAtStart[v] \in Incomplete /\ scanEnq[v] = 1

\* C12: a dispatch call makes at most N network attempts, N being the number of
\* keys it loaded when it started; when every attempt is rate-limited it makes
\* exactly N attempts and fails with the exhausted error, which carries the
\* last attempt's error.
C12_AtMostN ==
    \A d \in Dispatchers :
        /\ dmade[d] <= dn[d]
        /\ dres[d] = "exhausted" =>
              dmade[d] = dn[d] /\ dstop[d] = 0 /\ dkey[d] = didx[d] + 1
        /\ dpc[d] = "done" /\ dn[d] > 0 /\ dstop[d] = 0 =>
              dres[d] = "exhausted" /\ dmade[d] = dn[d]
C12_Witness ==
    \E d \in Dispatchers :
        dres[d] = "exhausted" /\ dn[d] = 2 /\ dmade[d] = 2 /\ pool = 3

\* C13: a call that loads an empty pool ends at once with the configuration
\* error: no iteration of the loop, no selection, no network attempt.
C13_EmptyPoolFailsFast ==
    \A d \in Dispatchers :
        dpc[d] # "idle" /\ dn[d] = 0 =>
            /\ dpc[d] = "done" /\ dres[d] = "config_error"
            /\ dmade[d] = 0 /\ dattempt[d] = 0 /\ dstart[d] = -1
C13_Witness ==
    \E d \in Dispatchers : dres[d] = "config_error" /\ selections > 0

\* C14: the first attempt that succeeds, or fails with an error that is not
\* classified as rate-limit, ends the call with that result: no later attempt is
\* made, whatever keys remain untried.
C14_StopsAtFirstVerdict ==
    \A d \in Dispatchers :
        dstop[d] # 0 =>
            /\ dpc[d] = "done" /\ dmade[d] = dstop[d]
            /\ dres[d] \in {"ok", "other_error"}
            /\ dkey[d] = didx[d] + 1
C14_Witness ==
    \E d \in Dispatchers : dres[d] = "other_error" /\ dmade[d] < dn[d]

\* a finished call over three keys in which credentials 1 and 2 answered
\* rate-limit and credential 3 answered, whenever they were asked
Scenario(d) == dpc[d] = "done" /\ dn[d] = 3 /\ dscen[d]

\* C15 (as stated): in that scenario the call returns credential 3's result
\* after exactly 3 attempts, whatever the cursor was.
C15_Original ==
    \A d \in Dispatchers :
        Scenario(d) => dres[d] = "ok" /\ dkey[d] = 3 /\ dmade[d] = 3

\* C15: in that scenario a call during which no other caller selects a key
\* returns credential 3's result after 3 - (c mod 3) attempts, c being the
\* cursor at its first selection: 3 attempts exactly when c is a multiple of 3;
\* with other callers selecting it makes at most 3 attempts and either returns
\* credential 3's result or fails exhausted.
C15_FromCursor ==
    \A d \in Dispatchers :
        Scenario(d) =>
            /\ dmade[d] \in 1..3
            /\ dres[d] \in {"ok", "exhausted"}
            /\ dres[d] = "ok" => dkey[d] = 3
            /\ dsolo[d] =>
                  dres[d] = "ok" /\ dmade[d] = 3 - (dstart[d] % 3)
C15_Witness ==
    \E d \in Dispatchers :
        /\ Scenario(d) /\ dsolo[d] /\ dstart[d] = 3
        /\ dres[d] = "ok" /\ dkey[d] = 3 /\ dmade[d] = 3

\* C16: selections are atomic: no two selections observe the same cursor value,
\* k completed selections have advanced the cursor by exactly k, and a selection
\* returns the key at position (observed cursor mod number of keys).
C16_AtomicCursor ==
    /\ ~repeated
    /\ key_lock = 0 => key_index = selections /\ observed = 0..(selections - 1)
    /\ \A d \in Dispatchers :
          dpc[d] \in {"load", "store", "call"} => didx[d] = dobs[d] % dn[d]
C16_Witness ==
    \E d, e \in Dispatchers :
        d # e /\ dpc[d] = "call" /\ dpc[e] = "store" /\ dn[d] # dn[e] /\ selections = 2

\* the workers that have a job and are between the registration of the job
\* (with _lock: _current_video_id = video_id) and the finally clause
Processing(v) ==
    {w \in Workers : wjob[w].vid = v /\ wpc[w] \notin {"none", "get", "lock", "dead"}}

\* C17: get_video_queue_position(id) is 0 when id is the job being processed,
\* the 1-based position of id in the pending list when it is queued (1 for the
\* next pending job), and None (-1) when id is neither.
C17_PositionOfJobs ==
    \A v \in Videos :
        LET pos == get_video_queue_position(v) IN
        /\ Processing(v) # {} => pos = 0
        /\ Processing(v) = {} /\ (\E i \in 1..Len(queue_video_ids) : queue_video_ids[i] = v) =>
              /\ pos \in 1..Len(queue_video_ids)
              /\ queue_video_ids[pos] = v
              /\ \A j \in 1..(pos - 1) : queue_video_ids[j] # v
        /\ Processing(v) = {} /\ (\A i \in 1..Len(queue_video_ids) : queue_video_ids[i] # v) =>
              pos = -1

\* C20: while an entity is `transcribing` only a step of the worker loop gives
\* it another status: no request handler writes the status of an entity whose
\* job is in flight.
C20_OnlyWorkerLeavesTranscribing ==
    [][\A v \in Videos :
          (/\ videos[v].status = "transcribing"
           /\ Processing(v) # {}
           /\ videos'[v].status \notin {"transcribing", "none"})
          => \E w \in Processing(v) : wpc'[w] # wpc[w]]_vars

\* C11: the engine is constructed at most once, and every caller of get_model
\* receives the same instance.
C11_OneConstruction ==
    /\ built <= 1
    /\ \A l, k \in Loaders : gret[l] # 0 /\ gret[k] # 0 => gret[l] = gret[k]

\* C18: the dict returned by get_queue_status equals the contents the registry
\* had at one instant of the call.
C18_AtomicSnapshot == spc = "done" => snap \in during

\* C19: an entity in status `error` carries a message, which is the exception
\* text cut to its first ErrLimit characters (here: by its length).
C19_BoundedMessage ==
    \A v \in Videos :
        videos[v].status = "error" =>
            /\ videos[v].error_message \in 0..ErrLimit
            /\ videos[v].error_message \in {Truncate(n) : n \in ErrLens}

\* the handler of thread t is retrying an entity it found in status `error`
\* (after the deletion of the old transcription the loaded row is expired)
RetryingFailed(t) ==
    cop[t] = "retry" /\ (cld[t] = NoVideo \/ cld[t].status = "error")

\* C21: a retry of an entity in status `error` deletes the transcription it
\* found, commits the entity as `uploaded` without error message, and appends
\* exactly one job to the tail of the queue; no step of the handler touches the
\* job in progress or the jobs already queued.
C21_RetryResubmits ==
    [][crashes' = crashes => \A t \in Threads :
          LET v == carg[t] IN
          /\ (cop[t] = "retry" /\ cpc[t] = "retry_delete" /\ cpc'[t] = "retry_write") =>
                ~videos'[v].transcription
          /\ (RetryingFailed(t) /\ cpc[t] = "retry_write" /\ cpc'[t] = "append") =>
                /\ videos'[v].status = "uploaded"
                /\ videos'[v].error_message = -1
          /\ (cop[t] = "retry" /\ cpc[t] = "put" /\ cpc'[t] = "idle") =>
                /\ Len(task_queue') = Len(task_queue) + 1
                /\ SubSeq(task_queue', 1, Len(task_queue)) = task_queue
                /\ task_queue'[Len(task_queue')].vid = v
          /\ (cop[t] = "retry" /\ cpc'[t] # cpc[t]) =>
                /\ wjob' = wjob
                /\ \A w \in Workers : IsAlive(w) => wpc'[w] = wpc[w]
                /\ current_video_id' = current_video_id]_vars
\* the worker is in one of the long steps of a job: it persists entity state,
\* loads the model or runs the engine
LongStep == rpc \in {"begin", "get_model", "engine"}

\* C22: while the worker persists entity state, loads the model or runs the
\* engine it does not hold the registry lock, so a caller that needs the lock
\* waits at most for another short critical section, never for the job.
C22_CallersNeverWait ==
    /\ LongStep => lock # "worker"
    /\ lock = "worker" =>
          rpc \in {"set_id", "set_start", "remove", "clear_id", "clear_step", "clear_start"}

\* a whole get_queue_status call has run while the engine is running
C22_Witness ==
    /\ rpc = "engine"
    /\ spc = "ret"
    /\ lock = "observer"
    /\ snap.current_step = "transcribing"

\* get_model of loader l ends by raising: whisper.load_model failed
Raises(l) == gpc[l] = "load" /\ gpc'[l] \in {"done", "out"}

\* get_model of loader l returns
Returns(l) == gpc[l] = "ret" /\ gpc'[l] \in {"done", "out"}

\* C23 (failure part): a call that raises leaves the singleton as it was, and
\* any call that finds the singleton unset goes on to construct.
C23_RetriesConstruction ==
    [][\A l \in Loaders :
          /\ Raises(l) => model' = model /\ model_id' = model_id
          /\ (gpc[l] = "check" /\ gpc'[l] # "check") =>
                gpc'[l] = (IF model THEN "ret" ELSE "set")]_vars

\* C23: a failed construction is not cached, and once a call has returned an
\* instance every later call returns that same instance.
C23_FailureNotCached ==
    [][/\ \A l \in Loaders :
             /\ Raises(l) => model' = model /\ model_id' = model_id
             /\ (gpc[l] = "check" /\ gpc'[l] # "check") =>
                   gpc'[l] = (IF model THEN "ret" ELSE "set")
             /\ Returns(l) => gret'[l] # 0
       /\ (Returns("worker") /\ gret["worker"] # 0) =>
             gret'["worker"] = gret["worker"]]_vars

\* C24: a call loads the number of keys and the model identifier stored when it
\* starts, keeps them until it ends whatever the administrator changes
\* meanwhile, and every attempt uses a credential of the pool it loaded.
C24_FreshPerCall ==
    [][\A d \in Dispatchers :
          /\ DLoad(d) => dn'[d] = pool /\ dmodel'[d] = get_selected_model
          /\ ~DLoad(d) => dn'[d] = dn[d] /\ dmodel'[d] = dmodel[d]
          /\ dmade'[d] = dmade[d] + 1 => dkey'[d] \in 1..dn[d]]_vars

\* one caller has made both calls: the first selected two keys, then a key was
\* removed and another model stored, and the second call works with one key
\* and that model
C24_Witness ==
    \E d \in Dispatchers :
        /\ calls = 2 /\ \A e \in Dispatchers \ {d} : dpc[e] = "idle"
        /\ dpc[d] = "done" /\ dres[d] = "ok"
        /\ selections = 3 /\ dn[d] = 1 /\ dmade[d] = 1 /\ dkey[d] = 1
        /\ pool = 1 /\ gemini_model = 2 /\ dmodel[d] = 2

\* the call has decoded, or has failed to decode, its text
Decoded(r) == r.tag = "json"

\* C25: no call raises, and when decoding fails the returned object has the
\* original text as summary and empty structured fields.
C25_FallbackKeepsText ==
    ppc = "done" =>
        /\ presult.tag \in {"json", "fallback"}
        /\ ~Decoded(presult) =>
              /\ presult.summary = ptext
              /\ presult.effective_keywords = << >>
              /\ presult.effective_phrases = << >>
              /\ presult.correlation_insights = << >>
              /\ presult.recommendations = << >>
              /\ presult.funnel_suggestions = << >>

\* C25 (the decode-error part): when json.loads raises JSONDecodeError the call
\* returns the fallback object, whose summary is the text as it was handed to
\* the decoder: stripped, and without its fence lines.
C25_FallbackKeepsCleaned ==
    ppc = "done" /\ json_loads(pcleaned) = JSONDecodeError =>
        presult = Fallback(pcleaned)

\* valid data between an opening fence line (with info string i) and a closing
\* fence line
Fenced(i, data) == << "F" >> \o i \o << "N" >> \o data \o << "N", "F" >>

\* C26: valid data wrapped in one opening and one closing fence line decodes to
\* the result of decoding the data alone.
C26_FenceIsTransparent ==
    ppc = "done" =>
        \A i \in {<< >>, << "x" >>} :
            LET data == SubSeq(ptext, Len(i) + 3, Len(ptext) - 2) IN
            (ptext = Fenced(i, data) /\ Decoded(json_loads(data))) =>
                presult = parse_response(data) /\ presult = json_loads(data)

C26_Witness ==
    /\ ppc = "done"
    /\ ptext = Fenced(<< "x" >>, << "1" >>)
    /\ presult = [tag |-> "json", value |-> << "1" >>]

\* C27: an entity becomes `transcribing` only from `uploaded`, and one that has
\* reached `transcribed` or `error` keeps that status until it is deleted or,
\* for `error`, a retry resets it to `uploaded`.
C27_StatusOrder ==
    [][\A v \in Videos :
          LET a == videos[v].status
              b == videos'[v].status
          IN /\ (b = "transcribing" /\ a # "transcribing") => a = "uploaded"
             /\ (a \in Terminal /\ b # a) =>
                   \/ b = "none"
                   \/ /\ a = "error" /\ b = "uploaded"
                      /\ \E t \in Threads :
                            cop[t] = "retry" /\ carg[t] = v /\ cpc[t] = "retry_write"]_vars

\* the jobs of entity v that are queued or held by a worker
Outstanding(v) ==
    Cardinality({i \in 1..Len(task_queue) : task_queue[i].vid = v})
        + Cardinality({w \in InProgress : wjob[w].vid = v})

\* C28: at any time at most one job of an entity is queued or in progress.
C28_OneJobPerEntity == \A v \in Videos : Outstanding(v) <= 1

\* ------------------------------------------------------------ C29
\* C29 (as stated): an entity becomes `transcribed` only in the step that commits
\* its transcription record (the segments are part of that record here); when the
\* save fails after the record was staged, the rollback leaves the database as it
\* was, and the call of _mark_error that follows leaves the entity in `error`.
C29_Original ==
    [][\A w \in Workers :
          LET v == wjob[w].vid IN
          /\ \A u \in Videos :
                (videos[u].status # "transcribed" /\ videos'[u].status = "transcribed") =>
                    /\ ~videos[u].transcription
                    /\ videos'[u].transcription
          /\ (wpc[w] = "save" /\ wpc'[w] = "mark") => (wstaged'[w] /\ videos' = videos)
          /\ (wstaged[w] /\ wpc[w] = "mark" /\ wpc'[w] = "finally") =>
                videos'[v].status = "error"]_vars

\* C29 (amended): the same, but after a failed save the entity ends in `error`
\* unless it no longer exists or the write of _mark_error itself fails (then the
\* entity keeps the row it had).
C29_AtomicSave ==
    [][\A w \in Workers :
          LET v == wjob[w].vid IN
          /\ \A u \in Videos :
                (videos[u].status # "transcribed" /\ videos'[u].status = "transcribed") =>
                    /\ ~videos[u].transcription
                    /\ videos'[u].transcription
          /\ (wpc[w] = "save" /\ wpc'[w] = "mark") => (wstaged'[w] /\ videos' = videos)
          /\ (wstaged[w] /\ wpc[w] = "mark" /\ wpc'[w] = "finally") =>
                \/ videos'[v].status = "error"
                \/ videos[v].status = "none" /\ videos' = videos
                \/ v \in lost' /\ videos' = videos]_vars

\* a save failed for an entity without a transcription, nothing of it was kept,
\* and _mark_error has put the entity in `error`
C29_Witness ==
    \E w \in Workers :
        /\ wstaged[w] /\ wpc[w] = "finally" /\ wres[w] = "marked"
        /\ videos[wjob[w].vid].status = "error"
        /\ ~videos[wjob[w].vid].transcription

\* ------------------------------------------------------------ C30
\* the positions a worker may move to from each position of its loop
StepsAfter(pos) ==
    CASE pos = "get" -> {"lock"}
      [] pos = "lock" -> {"begin"}
      [] pos = "begin" -> {"step_loading", "finally", "mark"}
      [] pos = "step_loading" -> {"get_model"}
      [] pos = "get_model" -> {"step_transcribing", "mark"}
      [] pos = "step_transcribing" -> {"engine"}
      [] pos = "engine" -> {"save", "mark"}
      [] pos = "save" -> {"finally", "mark"}
      [] pos = "mark" -> {"finally"}
      [] pos = "finally" -> {"get"}
      [] OTHER -> {}

\* the steps of every job come in the order of the claim, each with its effect
FixedOrder ==
    \A w \in Workers :
        (crashes' = crashes /\ wpc'[w] # wpc[w] /\ wpc[w] # "none") =>
            LET v == wjob[w].vid IN
            /\ wpc'[w] \in StepsAfter(wpc[w])
            /\ wpc[w] = "lock" =>
                  /\ current_video_id' = v
                  /\ current_start_time'
                  /\ queue_video_ids' = RemoveFirst(queue_video_ids, v)
            /\ wpc'[w] = "step_loading" => videos'[v].status = "transcribing"
            /\ wpc[w] = "step_loading" => current_step' = "model_loading"
            /\ wpc'[w] = "step_transcribing" => model'
            /\ wpc[w] = "step_transcribing" => current_step' = "transcribing"
            /\ wpc[w] = "finally" => RegistryCleared'

\* C30: for each job the worker records the job id and takes it off the pending
\* list, persists `transcribing`, sets the step to model_loading and obtains the
\* engine, sets the step to transcribing and invokes the engine, and at the end
\* clears job id, step and start time together; while the engine runs for a job
\* the registry step is `transcribing` and the current job id is that job.
C30_StepOrder ==
    /\ [](\A w \in EngineRunning :
            current_step = "transcribing" /\ current_video_id = wjob[w].vid)
    /\ [][FixedOrder]_vars

\* C30, the part about the order of the steps alone
C30_OrderOnly == [][FixedOrder]_vars

\* C30, the part about the registry while the engine runs, for a single worker
C30_EngineUnderOneWorker ==
    Cardinality(AliveWorkers) <= 1 =>
        \A w \in EngineRunning :
            current_step = "transcribing" /\ current_video_id = wjob[w].vid

\* ------------------------------------------------------------ C31
\* C31: from the return of enqueue_transcription for a job until the worker has
\* finished it, get_video_queue_position of its id is never None (-1): the id
\* is in the pending list or is the current job.
C31_PositionKnown ==
    \A v \in Videos : Outstanding(v) > 0 => get_video_queue_position(v) # -1

\* C31 for a single worker
C31_KnownUnderOneWorker ==
    Cardinality(AliveWorkers) <= 1 => C31_PositionKnown

\* ------------------------------------------------------------ C32
\* the ids of the queued jobs, in the order the worker will take them
QueuedIds == [i \in 1..Len(task_queue) |-> task_queue[i].vid]

\* no call of enqueue_transcription is between its append and its put, and no
\* worker is between its get and the removal of the id from the pending list
RegistrySettled ==
    /\ \A c \in Callers : cpc[c] \notin {"check", "start", "put"}
    /\ \A w \in Workers : wpc[w] # "lock"

\* C32: the pending-id list names the queued jobs in the order in which the
\* worker will take them, also for concurrent callers of enqueue_transcription.
C32_SameOrder == RegistrySettled => queue_video_ids = QueuedIds

\* ------------------------------------------------------------ C33
\* the entities whose status is `transcribing`
Transcribing == {v \in Videos : videos[v].status = "transcribing"}

\* C33: once the recovery scan has completed, an entity is `transcribing` only
\* while it is the job a worker is processing; so at most one entity is
\* `transcribing`, and none when no job is in progress. Stated for the
\* lifetimes in which no status write (scan reset, _mark_error) has failed.
C33_TranscribingIsCurrent ==
    (phase = "serving" /\ lost = {}) =>
        /\ \A v \in Transcribing : \E w \in InProgress : wjob[w].vid = v
        /\ Cardinality(Transcribing) <= 1

\* C33 for a single worker
C33_UnderOneWorker ==
    Cardinality(AliveWorkers) <= 1 => C33_TranscribingIsCurrent

\* C33 without the restriction to lifetimes free of failed status writes
C33_AlsoAfterFailedWrites ==
    phase = "serving" =>
        \A v \in Transcribing : \E w \in InProgress : wjob[w].vid = v

\* ------------------------------------------------------------ C34
\* no upload, retry or recovery call is in the middle of executing
NoCallRunning == phase = "serving" /\ \A c \in Callers : cpc[c] = "idle"

\* entity v has a job in the queue, or a worker has dequeued its job and has
\* not yet left status `uploaded` behind (it is before the commit of
\* `transcribing`, or that step raised and _mark_error is about to run)
HasPendingJob(v) ==
    \/ \E i \in 1..Len(task_queue) : task_queue[i].vid = v
    \/ \E w \in InProgress : wjob[w].vid = v /\ wpc[w] \in {"lock", "begin", "mark"}

\* C34 (as stated): whenever no upload, retry or recovery call is executing,
\* every entity in `uploaded` has a job in the queue or is the job a worker has
\* just dequeued.
C34_Original ==
    NoCallRunning => \A v \in Videos : videos[v].status = "uploaded" => HasPendingJob(v)

\* C34 (amended): the same, except for an entity for which a database operation
\* failed in this lifetime: the query or the reset of the recovery scan, the
\* refresh of upload_videos, or the write of _mark_error.
C34_NoOrphans ==
    NoCallRunning =>
        \A v \in Videos : (videos[v].status = "uploaded" /\ v \notin lost) => HasPendingJob(v)

\* an uploaded entity waits in the queue behind the job in progress while no
\* call is running
C34_Witness ==
    \E u, v \in Videos :
        /\ NoCallRunning /\ u # v /\ lost = {}
        /\ videos[v].status = "uploaded" /\ videos[u].status = "transcribing"
        /\ \E i \in 1..Len(task_queue) : task_queue[i].vid = v

\* ------------------------------------------------------------ C35
\* C35 (as stated): the credentials a call attempts are pairwise distinct, also
\* when other calls advance the cursor meanwhile; in particular the credential
\* selected for an attempt is never the one of the call's previous attempt.
C35_Original ==
    \A d \in Dispatchers :
        (dpc[d] = "call" /\ dmade[d] >= 1) => didx[d] + 1 # dkey[d]

\* C35 (amended): a call during which no other call selects a credential tries
\* consecutive positions of the pool it loaded, starting at the cursor, so its
\* credentials are pairwise distinct and an exhausted call has tried each of them
\* once; with other calls selecting meanwhile only the bound of at most N
\* attempts holds.
C35_DistinctWhenAlone ==
    \A d \in Dispatchers :
        /\ dmade[d] <= dn[d]
        /\ (dsolo[d] /\ dpc[d] \in {"load", "store", "call"}) =>
              /\ dattempt[d] \in 1..dn[d]
              /\ didx[d] = (dstart[d] + dattempt[d] - 1) % dn[d]
        /\ (dsolo[d] /\ dpc[d] = "call" /\ dmade[d] >= 1) => didx[d] + 1 # dkey[d]
        /\ (dsolo[d] /\ dres[d] = "exhausted") =>
              /\ dmade[d] = dn[d]
              /\ dkey[d] = ((dstart[d] + dn[d] - 1) % dn[d]) + 1

\* a call that ran alone from a cursor of 1 has tried credentials 2, 3 and 1
\* and failed exhausted
C35_Witness ==
    \E d \in Dispatchers :
        /\ dsolo[d] /\ dres[d] = "exhausted"
        /\ dn[d] = 3 /\ dstart[d] = 1 /\ dmade[d] = 3 /\ dkey[d] = 1

\* ------------------------------------------------------------ C36
\* the threads inside the construction of the engine: between the assignment
\* _model_loading = True and the assignment _model_loading = False of get_model
Constructing == {l \in Loaders : gpc[l] \in {"load", "assign", "clear"}}

\* C36: the model_loading flag is true only while some thread executes the
\* engine construction (it is false again after a load that succeeded and after
\* one that raised), and it is not cleared while a thread is still loading.
C36_LoadingFlag ==
    /\ model_loading => Constructing # {}
    /\ (\E l \in Loaders : gpc[l] = "load") => model_loading

\* ------------------------------------------------------------ C37
\* every worker that runs is blocked in _task_queue.get() on an empty queue
\* and no call of enqueue_transcription is in progress
WorkerIdle ==
    /\ task_queue = << >>
    /\ \A w \in AliveWorkers : wpc[w] = "get"
    /\ \A c \in Callers : cpc[c] \notin {"append", "check", "start", "put"}

\* occurrences of id v in the pending list
Pending(v) == Cardinality({i \in 1..Len(queue_video_ids) : queue_video_ids[i] = v})

\* jobs of v that were appended to the pending list and not yet taken off it:
\* the calls of enqueue_transcription past their append, the queued jobs, and
\* the jobs dequeued by a worker that has not yet run its first critical section
Awaited(v) ==
    Cardinality({c \in Callers : carg[c] = v /\ cpc[c] \in {"check", "start", "put"}})
        + Cardinality({i \in 1..Len(task_queue) : task_queue[i].vid = v})
        + Cardinality({w \in Workers : wjob[w].vid = v /\ wpc[w] = "lock"})

\* C37: whenever the worker is blocked on an empty queue and no call of
\* enqueue_transcription is in progress, the registry shows the idle defaults
\* (empty pending list, no current job id, idle step, no start time); every id
\* appended by enqueue_transcription is removed again when its job is dequeued.
C37_IdleDefaults ==
    /\ WorkerIdle => (queue_video_ids = << >> /\ RegistryCleared)
    /\ \A v \in Videos : Pending(v) = Awaited(v)

\* the worker has processed two jobs and waits for the next one
C37_Witness ==
    /\ WorkerIdle /\ AliveWorkers # {} /\ finished >= 2
    /\ queue_video_ids = << >> /\ RegistryCleared

\* ------------------------------------------------------------ C38
\* worker w holds a job whose video was deleted while the job was queued
HoldsOrphan(w) == wjob[w] # NoJob /\ wjob[w].seq \in orphaned

\* C38: a job whose entity was deleted while it was queued is skipped: the
\* worker never gets past the query of _transcribe_video with it (the engine is
\* not invoked), none of its steps writes a status, an error or a transcription,
\* and its finally clause clears the registry and waits for the next job.
C38_SkipsDeleted ==
    /\ [](\A w \in Workers :
            HoldsOrphan(w) => wpc[w] \in {"lock", "begin", "mark", "finally"})
    /\ [][\A w \in Workers :
            (HoldsOrphan(w) /\ wpc'[w] # wpc[w] /\ wpc'[w] # "none") =>
                /\ videos' = videos
                /\ wpc[w] = "finally" => (wpc'[w] = "get" /\ RegistryCleared')]_vars

====
